---------------------------- MODULE Spec2Model ----------------------------
(***************************************************************************)
(* A model of plot.py (riley-x/ROOT_Plotting_Tools): the Occlusion list,   *)
(* the y-range estimator (_minmax_y, _auto_y_range, _pad_y_range,          *)
(* _fix_bad_yticks) and the automatic text placement of Plotter.compile(). *)
(*                                                                         *)
(* Python floats are modelled as exact rationals <<n, d>> in lowest terms  *)
(* with d > 0, so that an equality of the model is an equality of real     *)
(* numbers (floating-point rounding is not modelled).  A Python None is    *)
(* the model value None.                                                   *)
(***************************************************************************)
EXTENDS Integers, Sequences, FiniteSets, TLC

VARIABLES
    ranges,     \* Occlusion.ranges: the list of Occlusion.Range
    added,      \* the rectangles handed to Occlusion.add so far, in call order
    mmIn,       \* _minmax_y: the arguments [obj, x_range, k] of the call
    mmOut,      \* _minmax_y: the returned <<o_min, o_pos, o_max>> (None before)
    plotter,    \* the Plotter object (None while there is none)
    call        \* the last Plotter call: [op, before], before being the
                \* plotter the call started from

occVars == <<ranges, added>>
mmVars == <<mmIn, mmOut>>
plVars == <<plotter, call>>
vars == <<ranges, added, mmIn, mmOut, plotter, call>>

\* Python's None, and the y_range argument 'auto'.  Every value that may be
\* None is a tuple in this model (a number <<n, d>>, a range <<lo, hi>>, a
\* list), so None and 'auto' are tuples of their own lengths.
None == <<>>
auto == <<"auto">>

-----------------------------------------------------------------------------
(* Exact arithmetic standing for Python's float arithmetic.                *)

Abs(x) == IF x < 0 THEN -x ELSE x

RECURSIVE Gcd(_, _)
Gcd(a, b) == IF b = 0 THEN a ELSE Gcd(b, a % b)

\* The rational n/d (d # 0) in lowest terms with a positive denominator.
Q(n, d) ==
    LET s == IF d < 0 THEN -1 ELSE 1
        g == Gcd(Abs(n), Abs(d))
    IN  <<(s * n) \div g, (s * d) \div g>>

I(n) == <<n, 1>>

RAdd(a, b) == Q(a[1] * b[2] + b[1] * a[2], a[2] * b[2])
RSub(a, b) == Q(a[1] * b[2] - b[1] * a[2], a[2] * b[2])
RMul(a, b) == Q(a[1] * b[1], a[2] * b[2])
\* a / b for b # 0 (Python raises ZeroDivisionError for b = 0: the callers
\* test for it before dividing).
RDiv(a, b) == Q(a[1] * b[2], a[2] * b[1])
RLt(a, b) == a[1] * b[2] < b[1] * a[2]
RLe(a, b) == a[1] * b[2] <= b[1] * a[2]
RGt(a, b) == RLt(b, a)
RGe(a, b) == RLe(b, a)
RMax(a, b) == IF RLt(a, b) THEN b ELSE a
RMin(a, b) == IF RLt(b, a) THEN b ELSE a
RZero == I(0)
ROne == I(1)

-----------------------------------------------------------------------------
(* Occlusion (plot.py 1803-1907)                                           *)

Range(x_min, x_max, y_min, y_max) ==
    [x_min |-> x_min, x_max |-> x_max, y_min |-> y_min, y_max |-> y_max]

\* Occlusion.Range.split: the pieces [self] is replaced by when [other] is
\* added.  The final "else: raise" of the code is not reachable: the four
\* preceding x-tests are exhaustive once the two intervals overlap.
Split(self, other) ==
    LET y_min == RMin(self.y_min, other.y_min)
        y_max == RMax(self.y_max, other.y_max)
    IN  IF RGe(other.y_min, self.y_min) /\ RLe(other.y_max, self.y_max)
          THEN <<self>>
        ELSE IF RGe(other.x_min, self.x_max) \/ RLe(other.x_max, self.x_min)
          THEN <<self>>
        ELSE IF RGt(other.x_min, self.x_min) /\ RLt(other.x_max, self.x_max)
          THEN << Range(self.x_min, other.x_min, self.y_min, self.y_max),
                  Range(other.x_min, other.x_max, y_min, y_max),
                  Range(other.x_max, self.x_max, self.y_min, self.y_max) >>
        ELSE IF RLe(other.x_min, self.x_min) /\ RGe(other.x_max, self.x_max)
          THEN << Range(self.x_min, self.x_max, y_min, y_max) >>
        ELSE IF RLt(other.x_max, self.x_max)
          THEN << Range(self.x_min, other.x_max, y_min, y_max),
                  Range(other.x_max, self.x_max, self.y_min, self.y_max) >>
        ELSE << Range(self.x_min, other.x_min, self.y_min, self.y_max),
                Range(other.x_min, self.x_max, y_min, y_max) >>

\* Occlusion.Range.overlaps_x
OverlapsX(self, x_min, x_max) ==
    \/ RGe(x_min, self.x_min) /\ RLt(x_min, self.x_max)
    \/ RGt(x_max, self.x_min) /\ RLe(x_max, self.x_max)
    \/ RLe(x_min, self.x_min) /\ RGe(x_max, self.x_max)

\* bisect.bisect_left(a, x) with Range.__lt__ (a[mid].x_min < x), as CPython
\* computes it: a binary search between lo and hi (0-based indexes).
RECURSIVE BisectLeft(_, _, _, _)
BisectLeft(a, x, lo, hi) ==
    IF lo >= hi THEN lo
    ELSE LET mid == (lo + hi) \div 2
         IN  IF RLt(a[mid + 1].x_min, x)
               THEN BisectLeft(a, x, mid + 1, hi)
               ELSE BisectLeft(a, x, lo, mid)

\* Occlusion._find: <<i_min, i_max>>, 0-based, [i_min, i_max) intersects r.
Find(rs, r) ==
    IF Len(rs) = 0 THEN <<0, 0>>
    ELSE LET b == BisectLeft(rs, r.x_min, 0, Len(rs))
             i_min == IF b > 0 /\ RGt(rs[b].x_max, r.x_min) THEN b - 1 ELSE b
             i_max == BisectLeft(rs, r.x_max, 0, Len(rs))
         IN  <<i_min, i_max>>

RECURSIVE SplitAll(_, _, _, _)
SplitAll(rs, r, i, i_max) ==
    IF i >= i_max THEN <<>>
    ELSE Split(rs[i + 1], r) \o SplitAll(rs, r, i + 1, i_max)

\* Occlusion.add: the new value of self.ranges.
OccAdd(rs, r) ==
    LET f == Find(rs, r)
        i_min == f[1]
        i_max == f[2]
    IN  IF i_min = Len(rs) THEN Append(rs, r)
        ELSE IF i_min = i_max
          THEN SubSeq(rs, 1, i_min) \o <<r>> \o SubSeq(rs, i_min + 1, Len(rs))
        ELSE SubSeq(rs, 1, i_min) \o SplitAll(rs, r, i_min, i_max)
               \o SubSeq(rs, i_max + 1, Len(rs))

-----------------------------------------------------------------------------
(* Series and the data scan (plot.py 1512-1587)                            *)
(*                                                                         *)
(* A series is [cls, pts]: cls is the ROOT class ("TH1", "TGraph") and pts *)
(* its bins or points [x_low, x_high, y, e]; a TGraph point has            *)
(* x_low = x_high.                                                         *)

Pt(x_low, x_high, y, e) == [x_low |-> x_low, x_high |-> x_high, y |-> y, e |-> e]

\* get(i) of _minmax_y: (x, y, e) of bin or point i
GetX(obj, i) ==
    IF obj.cls = "TH1"
      THEN RDiv(RAdd(obj.pts[i].x_low, obj.pts[i].x_high), I(2))
      ELSE obj.pts[i].x_low
GetY(obj, i) == obj.pts[i].y
GetE(obj, i) == IF obj.cls = "TH1" THEN obj.pts[i].e ELSE ROne

\* "if x_range: if x < x_range[0] or x > x_range[1]: continue"
OutsideX(x, x_range) ==
    x_range # None /\ (RLt(x, x_range[1]) \/ RGt(x, x_range[2]))

\* First pass of _minmax_y: the running weighted mean and the running sum
\* the code calls std, after points 1..i.
RECURSIVE FirstPass(_, _, _)
FirstPass(obj, x_range, i) ==
    IF i = 0 THEN [mean |-> RZero, std |-> RZero, w_sum |-> RZero]
    ELSE LET st == FirstPass(obj, x_range, i - 1)
             x == GetX(obj, i)
             y == GetY(obj, i)
             e == GetE(obj, i)
         IN  IF OutsideX(x, x_range) \/ e = RZero THEN st
             ELSE LET w_sum == RAdd(st.w_sum, RDiv(ROne, e))
                      mean == RAdd(st.mean,
                                   RDiv(RSub(y, st.mean), RMul(e, w_sum)))
                      std == RAdd(st.std,
                                  RDiv(RMul(RSub(y, st.mean), RSub(y, mean)), e))
                  IN  [mean |-> mean, std |-> std, w_sum |-> w_sum]

\* The square of the final std: 0 if (std < 0 or w_sum <= 0) else std / w_sum
StdSquaredUnnormalised(st) ==
    IF RLt(st.std, RZero) \/ RLe(st.w_sum, RZero) THEN RZero ELSE st.std

StdSquared(st) ==
    IF RLt(st.std, RZero) \/ RLe(st.w_sum, RZero) THEN RZero
    ELSE RDiv(st.std, st.w_sum)

\* abs(y - mean) > ignore_outliers_y * std for ignore_outliers_y >= 0, both
\* sides squared (std2 is the square of std, and std >= 0)
TooFar(y, mean, std2, k) ==
    LET d == RSub(y, mean)
    IN  RGt(RMul(d, d), RMul(RMul(k, k), std2))

\* The second pass's "continue" tests for point i
Skipped(obj, x_range, k, st, i) ==
    LET x == GetX(obj, i)
        y == GetY(obj, i)
        e == GetE(obj, i)
    IN  \/ y = RZero /\ e = RZero
        \/ OutsideX(x, x_range)
        \/ k # RZero /\ e # RZero /\ TooFar(y, st.mean, StdSquared(st), k)

RECURSIVE SecondPass(_, _, _, _, _)
SecondPass(obj, x_range, k, st, i) ==
    IF i = 0 THEN <<None, None, None>>
    ELSE LET o == SecondPass(obj, x_range, k, st, i - 1)
             y == GetY(obj, i)
         IN  IF Skipped(obj, x_range, k, st, i) THEN o
             ELSE << IF o[1] = None \/ RLt(y, o[1]) THEN y ELSE o[1],
                     IF RGt(y, RZero) /\ (o[2] = None \/ RLt(y, o[2]))
                       THEN y ELSE o[2],
                     IF o[3] = None \/ RGt(y, o[3]) THEN y ELSE o[3] >>

\* _minmax_y(obj, x_range, ignore_outliers_y): (min, min > 0, max)
MinmaxY(obj, x_range, k) ==
    LET st == IF k # RZero THEN FirstPass(obj, x_range, Len(obj.pts))
              ELSE [mean |-> RZero, std |-> RZero, w_sum |-> RZero]
    IN  SecondPass(obj, x_range, k, st, Len(obj.pts))

\* The body of the loop of get_minmax_y: o is _minmax_y of the next
\* object, acc the (min, min > 0, max) so far
MergeMinmaxY(acc, o) ==
    IF o[1] = None \/ o[3] = None THEN acc
    ELSE << IF acc[1] = None \/ RLt(o[1], acc[1]) THEN o[1] ELSE acc[1],
            IF o[2] # None /\ (acc[2] = None \/ RLt(o[2], acc[2]))
              THEN o[2] ELSE acc[2],
            IF acc[3] = None \/ RGt(o[3], acc[3]) THEN o[3] ELSE acc[3] >>

\* get_minmax_y(objs, x_range, ignore_outliers_y) over objs[1..n]
RECURSIVE GetMinmaxY(_, _, _, _)
GetMinmaxY(objs, x_range, k, n) ==
    IF n = 0 THEN <<None, None, None>>
    ELSE MergeMinmaxY(GetMinmaxY(objs, x_range, k, n - 1),
                      MinmaxY(objs[n], x_range, k))

-----------------------------------------------------------------------------
(* Automatic x range (plot.py 1456-1510)                                   *)

NonEmptyBins(obj) ==
    { i \in 1 .. Len(obj.pts) : obj.pts[i].y # RZero \/ obj.pts[i].e # RZero }

RECURSIVE FoldMin(_, _, _)
FoldMin(F(_), n, acc) ==
    IF n = 0 THEN acc
    ELSE LET prev == FoldMin(F, n - 1, acc)
         IN  IF prev = None \/ RLt(F(n), prev) THEN F(n) ELSE prev

RECURSIVE FoldMax(_, _, _)
FoldMax(F(_), n, acc) ==
    IF n = 0 THEN acc
    ELSE LET prev == FoldMax(F, n - 1, acc)
         IN  IF prev = None \/ RGt(F(n), prev) THEN F(n) ELSE prev

\* _minmax_x(obj): for a TH1 the low edge of the first and the high edge of
\* the last bin with content or error, for a TGraph the least and greatest x
MinmaxX(obj) ==
    IF obj.cls = "TH1"
      THEN LET ne == NonEmptyBins(obj)
           IN  IF ne = {} THEN <<None, None>>
               ELSE << obj.pts[CHOOSE i \in ne : \A j \in ne : i <= j].x_low,
                       obj.pts[CHOOSE i \in ne : \A j \in ne : i >= j].x_high >>
      ELSE LET X(i) == obj.pts[i].x_low
           IN  <<FoldMin(X, Len(obj.pts), None), FoldMax(X, Len(obj.pts), None)>>

\* The body of the loop of get_minmax_x: o is _minmax_x of the next object
MergeMinmaxX(acc, o) ==
    IF o[1] = None \/ o[2] = None THEN acc
    ELSE << IF acc[1] = None \/ RLt(o[1], acc[1]) THEN o[1] ELSE acc[1],
            IF acc[2] = None \/ RGt(o[2], acc[2]) THEN o[2] ELSE acc[2] >>

\* get_minmax_x(objs) over objs[1..n]
RECURSIVE GetMinmaxX(_, _)
GetMinmaxX(objs, n) ==
    IF n = 0 THEN <<None, None>>
    ELSE MergeMinmaxX(GetMinmaxX(objs, n - 1), MinmaxX(objs[n]))

\* _auto_x_range(objs, x_range, x_pad, x_pad_left, x_pad_right); the pads
\* are below 1/2 here, so data_width is not 0.
AutoXRange(objs, args) ==
    LET x_range == args.x_range
        x_pad_left == IF args.x_pad # None THEN args.x_pad ELSE args.x_pad_left
        x_pad_right == IF args.x_pad # None THEN args.x_pad ELSE args.x_pad_right
        data_width == RSub(RSub(ROne, x_pad_left), x_pad_right)
        mm == GetMinmaxX(objs, Len(objs))
        x_min == IF x_range[1] # None THEN x_range[1] ELSE mm[1]
        x_max == IF x_range[2] # None THEN x_range[2] ELSE mm[2]
        diff == RSub(x_max, x_min)
    IN  IF x_range = None THEN None
        ELSE IF x_range[1] # None /\ x_range[2] # None THEN x_range
        ELSE IF mm[1] = None \/ mm[2] = None THEN None
        ELSE << IF x_range[1] = None
                  THEN RSub(x_min, RDiv(RMul(x_pad_left, diff), data_width))
                  ELSE x_min,
                IF x_range[2] = None
                  THEN RAdd(x_max, RDiv(RMul(x_pad_right, diff), data_width))
                  ELSE x_max >>

-----------------------------------------------------------------------------
(* Automatic y range (plot.py 554-675, 1731-1754), on a linear axis        *)

\* The exception, as a value an operator returns in place of its result
ZeroDivisionError == <<[exc |-> "ZeroDivisionError"]>>

\* _get_padded_range without the division by data_height (a faulty variant
\* the padding identity tells apart)
GetPaddedRangeNoRescale(data_min, data_max, pad_bot, pad_top) ==
    LET diff == RSub(data_max, data_min)
    IN  << RSub(data_min, RMul(pad_bot, diff)), RAdd(data_max, RMul(pad_top, diff)) >>

\* Plotter._get_padded_range: <<out_min, out_max>>, or the exception the
\* division raises when pad_bot + pad_top = 1
GetPaddedRange(data_min, data_max, pad_bot, pad_top) ==
    LET data_height == RSub(RSub(ROne, pad_bot), pad_top)
        diff == RSub(data_max, data_min)
    IN  IF data_height = RZero THEN ZeroDivisionError
        ELSE << RSub(data_min, RDiv(RMul(pad_bot, diff), data_height)),
                RAdd(data_max, RDiv(RMul(pad_top, diff), data_height)) >>

\* The loop of _fix_bad_yticks: probe i of 3; need_fix[i] is what the probe
\* of THLimitsFinder.Optimize answers (a black box: any answer is possible).
RECURSIVE Widen(_, _, _, _, _, _)
Widen(y_min, y_max, bot_is_fixed, top_is_fixed, need_fix, i) ==
    IF i > 3 \/ ~need_fix[i] THEN <<y_min, y_max>>
    ELSE LET diff == RSub(y_max, y_min)
             step == RMul(diff, Q(1, 10))
         IN  Widen(IF bot_is_fixed THEN y_min ELSE RSub(y_min, step),
                   IF top_is_fixed THEN y_max ELSE RAdd(y_max, step),
                   bot_is_fixed, top_is_fixed, need_fix, i + 1)

\* _fix_bad_yticks without its test of ydivs (a faulty variant): the ticks
\* are probed for any number of divisions
FixBadYticksAnyDivs(y_min, y_max, bot_is_fixed, top_is_fixed, ydivs, need_fix) ==
    IF bot_is_fixed /\ top_is_fixed THEN <<y_min, y_max>>
    ELSE Widen(y_min, y_max, bot_is_fixed, top_is_fixed, need_fix, 1)

\* _fix_bad_yticks(y_min, y_max, bot_is_fixed, top_is_fixed, ydivs)
FixBadYticks(y_min, y_max, bot_is_fixed, top_is_fixed, ydivs, need_fix) ==
    IF bot_is_fixed /\ top_is_fixed THEN <<y_min, y_max>>
    ELSE IF ydivs # None /\ ydivs[1] % 100 <= 5
      THEN Widen(y_min, y_max, bot_is_fixed, top_is_fixed, need_fix, 1)
    ELSE <<y_min, y_max>>

\* What _auto_y_range leaves when it returns None before any scan
NoYRange ==
    [y_range |-> None, data_y_min |-> None, data_y_pos |-> None,
     data_y_max |-> None, auto_y_bot |-> FALSE, auto_y_top |-> FALSE,
     scanned |-> FALSE]

\* _auto_y_range from the call of get_minmax_y on: mm is what the scan
\* returned, y_range the argument with 'auto' read as (None, None)
ScannedYRange(mm, y_range, args) ==
    LET auto_y_bot == y_range[1] = None
        auto_y_top == y_range[2] = None
        clamp_bot == auto_y_bot /\ args.y_min # None /\ RLt(mm[1], args.y_min)
        clamp_top == auto_y_top /\ args.y_max # None /\ RGt(mm[3], args.y_max)
    IN  IF mm[1] = None \/ mm[3] = None
          THEN [NoYRange EXCEPT !.scanned = TRUE, !.data_y_min = mm[1],
                                !.data_y_pos = mm[2], !.data_y_max = mm[3]]
        ELSE [y_range |-> << IF ~auto_y_bot THEN y_range[1]
                             ELSE IF clamp_bot THEN args.y_min ELSE mm[1],
                             IF ~auto_y_top THEN y_range[2]
                             ELSE IF clamp_top THEN args.y_max ELSE mm[3] >>,
              data_y_min |-> mm[1], data_y_pos |-> mm[2], data_y_max |-> mm[3],
              auto_y_bot |-> auto_y_bot /\ ~clamp_bot,
              auto_y_top |-> auto_y_top /\ ~clamp_top,
              scanned |-> TRUE]

\* _auto_y_range without its short circuit (a faulty variant): the data is
\* scanned even when both bounds are given
AutoYRangeNoShortCircuit(objs, x_range, args) ==
    IF args.y_range = None THEN NoYRange
    ELSE ScannedYRange(GetMinmaxY(objs, x_range, args.ignore_outliers_y, Len(objs)),
                       IF args.y_range = auto THEN <<None, None>> ELSE args.y_range,
                       args)

\* Plotter._auto_y_range on a 1-D plot: what it returns and the members it
\* sets; scanned says whether get_minmax_y was called.
AutoYRange(objs, x_range, args) ==
    IF args.y_range = None THEN NoYRange
    ELSE IF args.y_range # auto /\ args.y_range[1] # None /\ args.y_range[2] # None
      THEN [NoYRange EXCEPT !.y_range = args.y_range]
    ELSE ScannedYRange(GetMinmaxY(objs, x_range, args.ignore_outliers_y, Len(objs)),
                       IF args.y_range = auto THEN <<None, None>> ELSE args.y_range,
                       args)

\* The y_min of _pad_y_range without the rule for non-negative data (a
\* faulty variant)
EffectiveYMinAsGiven(data_min, y_min) == y_min

\* "if data_min >= 0 and not self.pad.GetLogy(): if y_min is None or
\* y_min < 0: y_min = 0"
EffectiveYMin(data_min, y_min) ==
    IF RGe(data_min, RZero) /\ (y_min = None \/ RLt(y_min, RZero))
      THEN RZero ELSE y_min

\* A padded range with the paddings it was made with, or the exception
\* _get_padded_range raised
Padded(range, pad_bot, pad_top) ==
    IF range = ZeroDivisionError THEN ZeroDivisionError
    ELSE <<range, pad_bot, pad_top>>

\* "Apply constraints" of _pad_y_range: first is the range of the first
\* pass, y_min the clamp after the rule for non-negative data
ApplyConstraints(first, data_min, data_max, pad_bot, pad_top, y_min, y_max) ==
    LET low == y_min # None /\ RLt(first[1], y_min)
        high == y_max # None /\ RGt(first[2], y_max)
        data_min2 == IF low THEN y_min ELSE data_min
        pad_bot2 == IF low THEN RZero ELSE pad_bot
        data_max2 == IF high THEN y_max ELSE data_max
        pad_top2 == IF high THEN RZero ELSE pad_top
    IN  IF first = ZeroDivisionError THEN ZeroDivisionError
        ELSE Padded(IF low \/ high
                      THEN GetPaddedRange(data_min2, data_max2, pad_bot2, pad_top2)
                      ELSE first,
                    pad_bot2, pad_top2)

\* The range before "Undo log, fix ticks" in Plotter._pad_y_range, with the
\* paddings left after the constraints: <<range, pad_bot, pad_top>>, or the
\* exception _get_padded_range raises.
PaddedBeforeTicks(y_range, auto_y_bot, auto_y_top, y_pad_bot, y_pad_top, y_min_arg, y_max) ==
    LET pad_bot == IF auto_y_bot THEN y_pad_bot ELSE RZero
        pad_top == IF auto_y_top THEN y_pad_top ELSE RZero
    IN  ApplyConstraints(GetPaddedRange(y_range[1], y_range[2], pad_bot, pad_top),
                         y_range[1], y_range[2], pad_bot, pad_top,
                         EffectiveYMin(y_range[1], y_min_arg), y_max)

\* "Undo log, fix ticks" of _pad_y_range on a linear axis: b is
\* <<range, pad_bot, pad_top>> or the exception
FixTicks(b, ydivs, need_fix) ==
    IF b = ZeroDivisionError THEN ZeroDivisionError
    ELSE FixBadYticks(b[1][1], b[1][2], b[2] = RZero, b[3] = RZero,
                      ydivs, need_fix)

\* Plotter._pad_y_range on a 1-D plot: the new self.y_range, or the exception
PadYRange(y_range, auto_y_bot, auto_y_top, y_pad_bot, y_pad_top, args, need_fix) ==
    IF ~auto_y_bot /\ ~auto_y_top THEN y_range
    ELSE FixTicks(PaddedBeforeTicks(y_range, auto_y_bot, auto_y_top,
                                    y_pad_bot, y_pad_top, args.y_min, args.y_max),
                  args.ydivs, need_fix)

-----------------------------------------------------------------------------
(* Titles and legend (plot.py 862-978, 1045-1123, 1268-1351)               *)
(*                                                                         *)
(* Text sizes are what ROOT measures (TLatex.GetXsize / GetYsize): inputs  *)
(* of the model.  A title is None or <<atlas, rest>>, each None or a       *)
(* measured <<width, height>>; a subtitle or a legend label is its         *)
(* measured <<width, height>>.                                             *)

kVAlignBottom == 1
kVAlignCenter == 2
kVAlignTop == 3

Tex(line_y, x, w, h, v_align) ==
    [line_y |-> line_y, x |-> x, w |-> w, h |-> h, v_align |-> v_align]

\* Plotter._create_title: the TLatex objects of the title line whose top is
\* at offset y, each with the line's baseline offset line_y
CreateTitle(y, title) ==
    LET atlas == IF title[1] # None
                   THEN <<Tex(None, RZero, title[1][1], title[1][2], kVAlignBottom)>>
                   ELSE <<>>
        x == IF title[1] # None THEN RAdd(title[1][1], Q(1, 100)) ELSE RZero
        rest == IF title[2] # None
                  THEN <<Tex(None, x, title[2][1], title[2][2], kVAlignBottom)>>
                  ELSE <<>>
        height == IF title[2] # None THEN title[2][2] ELSE title[1][2]
        texts == atlas \o rest
    IN  [i \in 1 .. Len(texts) |-> [texts[i] EXCEPT !.line_y = RAdd(y, height)]]

\* The running offset y of _make_titles before subtitle i (1-based)
RECURSIVE SubtitleY(_, _, _, _)
SubtitleY(y0, subtitle, text_spacing, i) ==
    IF i = 1 THEN y0
    ELSE RAdd(RAdd(SubtitleY(y0, subtitle, text_spacing, i - 1),
                   subtitle[i - 1][2]), text_spacing)

\* Plotter._make_titles: [titles, lines, title_height]; lines[i] is the
\* index of the title line (an entry of title_lines) TLatex i belongs to.
MakeTitles(title, subtitle, text_spacing) ==
    LET head == IF title # None THEN CreateTitle(RZero, title) ELSE <<>>
        y0 == IF title # None THEN RAdd(head[1].line_y, text_spacing) ELSE RZero
        subs == [i \in 1 .. Len(subtitle) |->
                    Tex(SubtitleY(y0, subtitle, text_spacing, i), RZero,
                        subtitle[i][1], subtitle[i][2], kVAlignTop)]
        first_sub == IF title # None THEN 1 ELSE 0
    IN  [titles |-> head \o subs,
         lines |-> [i \in 1 .. Len(head) |-> 1]
                     \o [i \in 1 .. Len(subtitle) |-> first_sub + i],
         title_height |->
            IF Len(subtitle) = 0 THEN y0
            ELSE RAdd(subs[Len(subtitle)].line_y, subtitle[Len(subtitle)][2])]

\* Plotter._get_line_width of the line TLatex i is on
LineWidth(t, i) ==
    LET on == { j \in 1 .. Len(t.titles) : t.lines[j] = t.lines[i] }
        first == CHOOSE j \in on : \A k \in on : j <= k
        last == CHOOSE j \in on : \A k \in on : j >= k
    IN  RSub(RAdd(t.titles[last].x, t.titles[last].w), t.titles[first].x)

\* Plotter._place_titles(x0, y0, align): (x, y) of every TLatex
PlaceTitles(t, x0, y0, align) ==
    [i \in 1 .. Len(t.titles) |->
        [x |-> IF align = "left" THEN RAdd(x0, t.titles[i].x)
               ELSE RAdd(RSub(x0, LineWidth(t, i)), t.titles[i].x),
         y |-> RSub(y0, t.titles[i].line_y),
         w |-> t.titles[i].w, h |-> t.titles[i].h,
         v_align |-> t.titles[i].v_align]]

leg_symbol_width == Q(5, 100)
leg_symbol_pad == Q(1, 100)
legend_column_separation == Q(1, 100)

\* The indexes into legend_items of the entries _make_legend puts in a column
\* (0-based column), in order
ColumnItems(n, rows, columns, vertical, column) ==
    IF vertical
      THEN LET lo == IF column * rows > n THEN n ELSE column * rows
               hi == IF (column + 1) * rows > n THEN n ELSE (column + 1) * rows
           IN  [i \in 1 .. (hi - lo) |-> lo + i]
      ELSE LET cnt == IF column >= n THEN 0
                      ELSE (n - column + columns - 1) \div columns
           IN  [i \in 1 .. cnt |-> column + 1 + (i - 1) * columns]

RECURSIVE AllColumns(_, _, _, _, _)
AllColumns(n, rows, columns, vertical, column) ==
    IF column >= columns THEN <<>>
    ELSE <<ColumnItems(n, rows, columns, vertical, column)>>
           \o AllColumns(n, rows, columns, vertical, column + 1)

RECURSIVE Flatten(_)
Flatten(ss) == IF ss = <<>> THEN <<>> ELSE Head(ss) \o Flatten(Tail(ss))

\* column_height of _make_legend for the entries (heights) of one column
RECURSIVE ColumnHeight(_, _, _)
ColumnHeight(heights, text_spacing, i) ==
    IF i = 0 THEN RZero
    ELSE RAdd(ColumnHeight(heights, text_spacing, i - 1),
              IF i # 1 THEN RAdd(text_spacing, heights[i]) ELSE heights[i])

\* The least width of a legend label (a faulty variant of the greatest)
MinLegendLabelWidth(items) ==
    LET W(i) == items[i][1] IN FoldMin(W, Len(items), None)

\* Plotter._max_legend_label_width(items)
MaxLegendLabelWidth(items) ==
    LET W(i) == items[i][1] IN FoldMax(W, Len(items), RZero)

\* Plotter._make_legend: one TLegend per entry, column after column, and
\* the legend's measures.  legends[k] is [item, height].
MakeLegend(legend_items, text_size, text_spacing, legend_columns, vertical) ==
    LET n == Len(legend_items)
        leg_label_width == MaxLegendLabelWidth(legend_items)
        rows == (n + legend_columns - 1) \div legend_columns
        column_width == RAdd(RAdd(leg_symbol_width, leg_symbol_pad), leg_label_width)
        cols == AllColumns(n, rows, legend_columns, vertical, 0)
        Height(i) == RMax(text_size, legend_items[i][2])
        ColH(c) == ColumnHeight([j \in 1 .. Len(cols[c]) |-> Height(cols[c][j])],
                                text_spacing, Len(cols[c]))
        order == Flatten(cols)
    IN  IF n = 0
          THEN [legends |-> <<>>, legend_rows |-> 0, legend_columns |-> 0,
                legend_width |-> RZero, legend_column_width |-> RZero,
                legend_height |-> RZero]
          ELSE [legends |-> [k \in 1 .. Len(order) |->
                                [item |-> order[k], height |-> Height(order[k])]],
                legend_rows |-> rows,
                legend_columns |-> legend_columns,
                legend_width |->
                    RAdd(RMul(column_width, I(legend_columns)),
                         RMul(legend_column_separation, I(legend_columns - 1))),
                legend_column_width |-> column_width,
                legend_height |-> FoldMax(ColH, legend_columns, RZero)]

\* current_y of _place_legend when it reaches legends[k] (1-based k), whose
\* column slice starts at legends[first]
RECURSIVE CurrentY(_, _, _, _, _)
CurrentY(lg, y, text_spacing, first, k) ==
    IF k = first THEN y
    ELSE RSub(CurrentY(lg, y, text_spacing, first, k - 1),
              RAdd(lg.legends[k - 1].height, text_spacing))

\* Plotter._place_legend(x, y, align): the box (X1, X2, Y1, Y2) of every
\* TLegend; column c takes the slice legends[c*rows : (c+1)*rows].
PlaceLegend(lg, x_arg, y, align, text_spacing) ==
    LET x == IF align = "left" THEN x_arg ELSE RSub(x_arg, lg.legend_width)
    IN  [k \in 1 .. Len(lg.legends) |->
            LET column == (k - 1) \div lg.legend_rows
                first == column * lg.legend_rows + 1
                start_x == RAdd(x, RMul(RAdd(lg.legend_column_width,
                                             legend_column_separation), I(column)))
                current_y == CurrentY(lg, y, text_spacing, first, k)
            IN  [item |-> lg.legends[k].item,
                 x1 |-> start_x,
                 x2 |-> RAdd(start_x, lg.legend_column_width),
                 y1 |-> RSub(current_y, lg.legends[k].height),
                 y2 |-> current_y]]

\* The text_pos options, by the words they contain
PosWithLeft == { "topleft", "bottomleft" }
PosWithRight == { "topright", "bottomright" }
PosWithReverse == { "top reverse", "bottom reverse" }
PosWithTop == { "top", "top reverse", "topleft", "topright" }
PosWithBottom == { "bottom", "bottom reverse", "bottomleft", "bottomright" }

\* Plotter._place_text_from_textpos: the quadrants of title and legend
TextQuadrants(textpos_arg) ==
    LET textpos == IF textpos_arg = "auto" THEN "topleft" ELSE textpos_arg
        hori == IF textpos \in PosWithLeft THEN <<"left", "left">>
                ELSE IF textpos \in PosWithRight THEN <<"right", "right">>
                ELSE IF textpos \in PosWithReverse THEN <<"right", "left">>
                ELSE <<"left", "right">>
        vert == IF textpos \in PosWithTop THEN <<"top", "top">>
                ELSE <<"bottom", "bottom">>
    IN  [title_hori |-> hori[1], legend_hori |-> hori[2],
         title_vert |-> vert[1], legend_vert |-> vert[2]]

\* Plotter._place_titles_and_legend after _place_text_from_textpos(textpos):
\* the placed titles and legends.  p is the Plotter.
PlaceText(p, textpos) ==
    LET q == TextQuadrants(textpos)
        legend_with_title == q.title_hori = q.legend_hori /\ q.title_vert = q.legend_vert
        two_spacings == RMul(I(2), p.text_spacing)
        title_x == IF q.title_hori = "left" THEN p.text_left ELSE p.text_right
        legend_x == IF q.legend_hori = "left" THEN p.text_left ELSE p.text_right
        title_y ==
            IF q.title_vert = "top" THEN p.text_top
            ELSE IF legend_with_title
              THEN RAdd(RAdd(RAdd(p.text_bottom, p.t.title_height), two_spacings),
                        p.lg.legend_height)
            ELSE RAdd(p.text_bottom, p.t.title_height)
        legend_y ==
            IF q.legend_vert = "bottom" THEN RAdd(p.text_bottom, p.lg.legend_height)
            ELSE IF legend_with_title
              THEN RSub(RSub(p.text_top, p.t.title_height), two_spacings)
            ELSE p.text_top
    IN  [titles |-> PlaceTitles(p.t, title_x, title_y, q.title_hori),
         legends |-> PlaceLegend(p.lg, legend_x, legend_y, q.legend_hori,
                                 p.text_spacing)]

-----------------------------------------------------------------------------
(* Frame and coordinates (plot.py 457-485, 1934-1980)                      *)
(*                                                                         *)
(* The frame is [own, x_min, x_max, minimum, maximum]: the limits of its x *)
(* axis and the minimum / maximum set on it (None while unset, as on a     *)
(* histogram nobody called SetMinimum on).  own is FALSE when the frame is *)
(* objs[0] itself.  NoFrame stands for "self.frame is None".               *)

NoFrame ==
    [own |-> FALSE, x_min |-> None, x_max |-> None,
     minimum |-> None, maximum |-> None]

\* Plotter._create_frame on a 1-D plot without x_bin_labels.  A TH1 used as
\* the frame keeps its own axis: from its first to its last bin edge.
CreateFrame(objs, x_range, y_range) ==
    IF x_range # None /\ y_range # None
      THEN [own |-> TRUE, x_min |-> x_range[1], x_max |-> x_range[2],
            minimum |-> None, maximum |-> None]
      ELSE [own |-> FALSE, x_min |-> objs[1].pts[1].x_low,
            x_max |-> objs[1].pts[Len(objs[1].pts)].x_high,
            minimum |-> None, maximum |-> None]

\* Plotter._set_frame_ranges: SetRangeUser on the y axis of a 1-D histogram
\* sets the histogram's minimum and maximum; on the x axis it leaves the
\* axis limits alone.
SetFrameRanges(frame, y_range) ==
    IF y_range # None
      THEN [frame EXCEPT !.minimum = y_range[1], !.maximum = y_range[2]]
      ELSE frame

\* frame.GetMinimum() / GetMaximum(): the value set, else the least /
\* greatest bin content (the frame is then objs[0], a TH1)
FrameMinimum(frame, objs) ==
    IF frame.minimum # None THEN frame.minimum
    ELSE LET Y(i) == objs[1].pts[i].y IN FoldMin(Y, Len(objs[1].pts), None)
FrameMaximum(frame, objs) ==
    IF frame.maximum # None THEN frame.maximum
    ELSE LET Y(i) == objs[1].pts[i].y IN FoldMax(Y, Len(objs[1].pts), None)

user_to_axes_x(frame, x) ==
    LET user_width == RSub(frame.x_max, frame.x_min)
    IN  IF user_width = RZero THEN ZeroDivisionError
        ELSE RDiv(RSub(x, frame.x_min), user_width)

\* user_to_axes_y on a linear axis; fmin, fmax are frame.GetMinimum() and
\* frame.GetMaximum()
user_to_axes_y(fmin, fmax, y) ==
    LET user_width == RSub(fmax, fmin)
    IN  IF user_width = RZero THEN ZeroDivisionError
        ELSE RDiv(RSub(y, fmin), user_width)

\* The pad margins leave a drawing area: left + right < 1, top + bottom < 1
pad_to_axes_x(pad, x) ==
    RDiv(RSub(x, pad.left_margin),
         RSub(RSub(ROne, pad.left_margin), pad.right_margin))
pad_to_axes_y(pad, y) ==
    RDiv(RSub(y, pad.bottom_margin),
         RSub(RSub(ROne, pad.top_margin), pad.bottom_margin))

-----------------------------------------------------------------------------
(* Automatic text position and top padding (plot.py 1159-1266)             *)

\* IterRoot: the entries (x_low, x_high, y_low, y_high) of an object
Entries(obj) ==
    [i \in 1 .. Len(obj.pts) |->
        IF obj.cls = "TH1"
          THEN Range(obj.pts[i].x_low, obj.pts[i].x_high,
                     RSub(obj.pts[i].y, obj.pts[i].e),
                     RAdd(obj.pts[i].y, obj.pts[i].e))
          ELSE Range(obj.pts[i].x_low, obj.pts[i].x_high,
                     obj.pts[i].y, obj.pts[i].y)]

\* All entries of all objects, in the order "Parse data" visits them
RECURSIVE AllEntries(_, _)
AllEntries(objs, n) ==
    IF n = 0 THEN <<>> ELSE AllEntries(objs, n - 1) \o Entries(objs[n])

\* "Parse data" of _auto_text_pos_and_pad: the Occlusion.ranges after the
\* first n entries were added in axes coordinates, or the exception a
\* conversion raised
RECURSIVE ParseData(_, _, _, _, _)
ParseData(es, frame, fmin, fmax, n) ==
    IF n = 0 THEN <<>>
    ELSE LET prev == ParseData(es, frame, fmin, fmax, n - 1)
             x_low == user_to_axes_x(frame, es[n].x_min)
             x_high == user_to_axes_x(frame, es[n].x_max)
             y_low == user_to_axes_y(fmin, fmax, es[n].y_min)
             y_high == user_to_axes_y(fmin, fmax, es[n].y_max)
         IN  IF prev = ZeroDivisionError \/ x_low = ZeroDivisionError
                  \/ y_low = ZeroDivisionError
               THEN ZeroDivisionError
             ELSE OccAdd(prev, Range(x_low, x_high, y_low, y_high))

\* The Occlusion "Parse data" builds from all entries of self.objs
DataOccs(p) ==
    ParseData(AllEntries(p.objs, Len(p.objs)), p.frame,
              FrameMinimum(p.frame, p.objs), FrameMaximum(p.frame, p.objs),
              Len(AllEntries(p.objs, Len(p.objs))))

y_text_data_spacing == Q(2, 100)

\* "Get text locations" of _get_required_top_padding: (left, right, bottom)
\* of every placed title and legend, in axes coordinates
TextOcclusions(pad, placed) ==
    [i \in 1 .. Len(placed.titles) |->
        LET tex == placed.titles[i]
            y0 == RSub(tex.y, y_text_data_spacing)
            y == IF tex.v_align = kVAlignTop THEN RSub(y0, tex.h)
                 ELSE IF tex.v_align = kVAlignCenter
                   THEN RSub(y0, RDiv(tex.h, I(2)))
                 ELSE y0
        IN  << pad_to_axes_x(pad, tex.x), pad_to_axes_x(pad, RAdd(tex.x, tex.w)),
               pad_to_axes_y(pad, y) >>]
    \o
    [i \in 1 .. Len(placed.legends) |->
        LET legend == placed.legends[i]
        IN  << pad_to_axes_x(pad, legend.x1), pad_to_axes_x(pad, legend.x2),
               pad_to_axes_y(pad, RSub(legend.y1, y_text_data_spacing)) >>]

\* pad_req of one data range r against one text box, None when the test of
\* the loop body fails
PadReq(r, box, pad_bot) ==
    IF OverlapsX(r, box[1], box[2]) /\ RGt(r.y_max, box[3])
      THEN IF r.y_max = RZero THEN ZeroDivisionError
           ELSE RSub(RSub(ROne, pad_bot), RDiv(RSub(box[3], pad_bot), r.y_max))
      ELSE None

\* The greatest of a non-empty set of numbers
RMaxOf(S) == CHOOSE m \in S : \A x \in S : RLe(x, m)

\* "Iterate over data points": max_pad after the first k (range, box) pairs
\* in loop order, or the exception.  max_pad starts at 0 and takes the
\* greater of itself and pad_req at every pair that passes the test.
MaxPad(rs, boxes, pad_bot, k) ==
    LET reqs == { PadReq(rs[((j - 1) \div Len(boxes)) + 1],
                         boxes[((j - 1) % Len(boxes)) + 1], pad_bot) : j \in 1 .. k }
    IN  IF ZeroDivisionError \in reqs THEN ZeroDivisionError
        ELSE RMaxOf((reqs \ { None }) \cup { RZero })

\* Plotter._get_required_top_padding(data_occs) with the text placed
GetRequiredTopPadding(p, placed, data_occs) ==
    LET boxes == TextOcclusions(p.pad, placed)
        pad_bot == IF p.auto_y_bot THEN p.y_pad_bot ELSE RZero
    IN  MaxPad(data_occs, boxes, pad_bot, Len(data_occs) * Len(boxes))

\* A pass of the loop "Test" that accepts the first candidate whatever it
\* costs (a faulty variant)
TestStepFirst(prev, req_pad, text_pos, y_min_pad_top) ==
    IF prev = ZeroDivisionError THEN ZeroDivisionError
    ELSE IF prev[3] THEN prev
    ELSE IF req_pad = ZeroDivisionError THEN ZeroDivisionError
    ELSE <<req_pad, text_pos, TRUE>>

\* One pass of the loop "Test" of _auto_text_pos_and_pad: prev is
\* <<min_pad, min_pad_pos, broke>> before the pass (or the exception),
\* req_pad what _get_required_top_padding returned for text_pos
TestStep(prev, req_pad, text_pos, y_min_pad_top) ==
    IF prev = ZeroDivisionError THEN ZeroDivisionError
    ELSE IF prev[3] THEN prev
    ELSE IF req_pad = ZeroDivisionError THEN ZeroDivisionError
    ELSE IF prev[1] = None \/ RLt(req_pad, prev[1])
      THEN <<req_pad, text_pos, RLt(req_pad, y_min_pad_top)>>
    ELSE prev

\* The loop "Test" after the options test_pos[1..n]: <<min_pad,
\* min_pad_pos, broke>>, or the exception "Parse data" or a pass raised
RECURSIVE TestPositions(_, _, _, _)
TestPositions(p, test_pos, data_occs, n) ==
    IF data_occs = ZeroDivisionError THEN ZeroDivisionError
    ELSE IF n = 0 THEN <<None, "top", FALSE>>
    ELSE TestStep(TestPositions(p, test_pos, data_occs, n - 1),
                  GetRequiredTopPadding(p, PlaceText(p, test_pos[n]), data_occs),
                  test_pos[n], p.y_min_pad_top)

AutoPositions == << "top", "top reverse", "topleft", "topright" >>

\* "Set outputs" of _auto_text_pos_and_pad: t is what the loop left
SetOutputs(p, t) ==
    IF t = ZeroDivisionError
      THEN [text_pos |-> p.text_pos, y_pad_top |-> p.y_pad_top,
            raised |-> ZeroDivisionError]
    ELSE [text_pos |-> t[2], y_pad_top |-> RMax(p.y_min_pad_top, t[1]),
          raised |-> None]

\* Plotter._auto_text_pos_and_pad on a 1-D plot: text_pos ("auto" or one
\* option) and _y_pad_top as it leaves them, and the exception it raised
AutoTextPosAndPad(p) ==
    LET has_text == Len(p.t.titles) > 0 \/ Len(p.lg.legends) > 0
        test_pos == IF p.text_pos = "auto" THEN AutoPositions ELSE <<p.text_pos>>
        same == [text_pos |-> p.text_pos, y_pad_top |-> p.y_pad_top,
                 raised |-> None]
    IN  IF ~has_text THEN same
        ELSE IF \E i \in 1 .. Len(test_pos) : test_pos[i] \notin PosWithTop
          THEN same
        ELSE IF Len(test_pos) = 1 /\ ~p.auto_y_top THEN same
        ELSE SetOutputs(p, TestPositions(p, test_pos, DataOccs(p), Len(test_pos)))

-----------------------------------------------------------------------------
(* Plotter (plot.py 370-451, 700-847, 1130-1154) on a 1-D plot with a      *)
(* linear y axis.                                                          *)
(*                                                                         *)
(* A plotter is a record of the members of the Python object.  raised is   *)
(* the exception the last call left through (None if it returned), and     *)
(* scanned says whether that call ran get_minmax_y.                        *)

\* Plotter.__init__ without objs.  kw holds the keyword arguments:
\* the pad margins, title (None or <<atlas, rest>>), subtitle (a list),
\* text_pos, text_size, text_spacing, the text offsets, y_pad_bot, y_pad_top
\* and args, the arguments kept for compile.  hndc is pad.GetHNDC().
NewPlotter(kw, hndc) ==
    LET text_size == RDiv(kw.text_size, hndc)
        text_spacing == RMul(RMul(kw.text_size, kw.text_spacing), Q(15, 100))
    IN  [objs |-> <<>>, legend_items |-> <<>>,
         compiled |-> FALSE,
         pad |-> [left_margin |-> kw.left_margin, right_margin |-> kw.right_margin,
                  top_margin |-> kw.top_margin, bottom_margin |-> kw.bottom_margin],
         text_pos |-> kw.text_pos,
         text_size |-> text_size, text_spacing |-> text_spacing,
         text_offset_left |-> kw.text_offset_left,
         text_offset_right |-> kw.text_offset_right,
         text_offset_top |-> kw.text_offset_top,
         text_offset_bottom |-> kw.text_offset_bottom,
         t |-> MakeTitles(kw.title, kw.subtitle, text_spacing),
         y_min_pad_bot |-> kw.y_pad_bot, y_min_pad_top |-> kw.y_pad_top,
         y_pad_bot |-> kw.y_pad_bot, y_pad_top |-> kw.y_pad_top,
         args |-> kw.args,
         x_range |-> None, y_range |-> None,
         data_y_min |-> None, data_y_pos |-> None, data_y_max |-> None,
         auto_y_bot |-> FALSE, auto_y_top |-> FALSE,
         frame |-> NoFrame, lg |-> None,
         text_left |-> None, text_right |-> None,
         text_top |-> None, text_bottom |-> None,
         placed |-> None, raised |-> None, scanned |-> FALSE]

\* Plotter.add(objs) with one legend label per object (labels[i] is the
\* measured <<width, height>> of the label, or None for no entry)
PlotterAdd(p, objs, labels) ==
    IF Len(objs) = 0 THEN p
    ELSE [p EXCEPT !.objs = @ \o objs,
                   !.legend_items =
                       @ \o SelectSeq(labels, LAMBDA l : l # None)]

\* self.<member> = value for every member of the record members
Assign(p, members) ==
    [f \in DOMAIN p |-> IF f \in DOMAIN members THEN members[f] ELSE p[f]]

\* compile(): self.x_range = self._auto_x_range(**self.args)
CompileXRange(p) ==
    [p EXCEPT !.compiled = TRUE, !.raised = None,
              !.x_range = AutoXRange(p.objs, p.args)]

\* compile(): self.y_range = self._auto_y_range(**self.args)
CompileYRange(p) == Assign(p, AutoYRange(p.objs, p.x_range, p.args))

\* compile() from "Frame" to _make_legend
CompileFrame(p) ==
    [p EXCEPT !.frame = SetFrameRanges(IF p.frame.x_min = None
                                         THEN CreateFrame(p.objs, p.x_range, p.y_range)
                                         ELSE p.frame,
                                       p.y_range),
              !.text_left = RAdd(p.pad.left_margin, p.text_offset_left),
              !.text_right = RSub(RSub(ROne, p.pad.right_margin),
                                  p.text_offset_right),
              !.text_top = RSub(RSub(ROne, p.pad.top_margin), p.text_offset_top),
              !.text_bottom = RAdd(p.pad.bottom_margin, p.text_offset_bottom),
              !.lg = MakeLegend(p.legend_items, p.text_size, p.text_spacing,
                                p.args.legend_columns,
                                p.args.legend_vertical_order)]

\* compile() up to and including _make_legend
CompileRanges(p) == CompileFrame(CompileYRange(CompileXRange(p)))

\* compile(): self._auto_text_pos_and_pad(**self.args)
CompileAutoText(q) == Assign(q, AutoTextPosAndPad(q))

\* compile(): self._place_text_from_textpos(self.text_pos)
CompilePlace(q) ==
    IF q.raised # None THEN q ELSE [q EXCEPT !.placed = PlaceText(q, q.text_pos)]

\* compile() from the start to _place_text_from_textpos
CompileText(p) == CompilePlace(CompileAutoText(CompileRanges(p)))

\* "Output" of _pad_y_range: y_range is the range it computed, or the
\* exception
SetYRange(q, y_range) ==
    IF y_range = ZeroDivisionError THEN [q EXCEPT !.raised = ZeroDivisionError]
    ELSE [q EXCEPT !.y_range = y_range,
                   !.frame = SetFrameRanges(q.frame, y_range)]

\* The last step of compile(), _pad_y_range, on the plotter q the steps
\* before it left.  need_fix holds the answers of the tick probes of
\* _fix_bad_yticks.
CompilePad(q, need_fix) ==
    IF q.raised # None THEN q
    ELSE SetYRange(q, PadYRange(q.y_range, q.auto_y_bot, q.auto_y_top,
                                q.y_pad_bot, q.y_pad_top, q.args, need_fix))

\* Plotter.compile()
Compile(p, need_fix) == CompilePad(CompileText(p), need_fix)

-----------------------------------------------------------------------------
(* The Occlusion list on its own: any sequence of Occlusion.add calls.     *)

MaxAdds == 3
OccXs == 0 .. 3
OccYRanges == { <<0, 1>>, <<0, 2>>, <<1, 1>> }

OccRects ==
    { Range(I(a), I(b), I(y[1]), I(y[2])) :
        a \in OccXs, b \in OccXs, y \in OccYRanges }

OccInit ==
    /\ ranges = <<>>
    /\ added = <<>>
    /\ mmIn = None /\ mmOut = None
    /\ plotter = None /\ call = None

\* occlusions.add(x_min, x_max, y_min, y_max), x_min <= x_max, y_min <= y_max
Add ==
    /\ Len(added) < MaxAdds
    /\ \E r \in OccRects :
         /\ RLe(r.x_min, r.x_max) /\ RLe(r.y_min, r.y_max)
         /\ ranges' = OccAdd(ranges, r)
         /\ added' = Append(added, r)
    /\ UNCHANGED <<mmVars, plVars>>

OccNext == Add

SpecOcc == OccInit /\ [][OccNext]_vars

-----------------------------------------------------------------------------
(* Claims about the Occlusion list.                                        *)

XDisjoint(a, b) == RLt(a.x_max, b.x_min) \/ RLt(b.x_max, a.x_min)
XContains(outer, inner) ==
    RLe(outer.x_min, inner.x_min) /\ RGe(outer.x_max, inner.x_max)

\* C4 (as claimed): two x-disjoint rectangles added to an empty Occlusion
\* give exactly two entries, and a rectangle whose x-interval contains the
\* one existing entry gives one merged entry over the wider x-interval with
\* the smallest y_min and the largest y_max of the two.  (Stated for an
\* existing entry of positive width.)
C4_OcclusionMerge ==
    (Len(added) = 2 /\ RLt(added[1].x_min, added[1].x_max)) =>
        /\ XDisjoint(added[1], added[2]) => Len(ranges) = 2
        /\ XContains(added[2], added[1]) =>
              ranges = << Range(added[2].x_min, added[2].x_max,
                                RMin(added[1].y_min, added[2].y_min),
                                RMax(added[1].y_max, added[2].y_max)) >>

-----------------------------------------------------------------------------
(* _minmax_y on its own: one call on any small series.                     *)

MaxPts == 3
MmYs == { I(0), I(1), I(6) }
MmEs == { I(0), I(1), I(2) }
MmXRanges == { None, <<I(0), I(2)>> }
MmKs == { I(0), I(1), I(2) }

\* A TH1 with bins [i-1, i] and a TGraph with points at x = i, i = 1..n
MmSeries ==
    UNION { { [cls |-> "TH1",
               pts |-> [i \in 1 .. n |-> Pt(I(i - 1), I(i), f[i][1], f[i][2])]] :
                f \in [1 .. n -> MmYs \X MmEs] }
            \cup
            { [cls |-> "TGraph",
               pts |-> [i \in 1 .. n |-> Pt(I(i), I(i), g[i], RZero)]] :
                g \in [1 .. n -> MmYs] } : n \in 1 .. MaxPts }

MmInit ==
    /\ mmIn \in [obj : MmSeries, x_range : MmXRanges, k : MmKs]
    /\ mmOut = None
    /\ ranges = <<>> /\ added = <<>>
    /\ plotter = None /\ call = None

\* _minmax_y(obj, x_range=..., ignore_outliers_y=...)
CallMinmaxY ==
    /\ mmOut = None
    /\ mmOut' = MinmaxY(mmIn.obj, mmIn.x_range, mmIn.k)
    /\ UNCHANGED <<mmIn, ranges, added, plVars>>

MmNext == CallMinmaxY

SpecMinmax == MmInit /\ [][MmNext]_vars

-----------------------------------------------------------------------------
(* Claims about _minmax_y.  The weighted mean and variance are restated    *)
(* here in closed form, sum(w y) / sum(w) and sum(w (y - mean)^2) / sum(w) *)
(* with w = 1 / e, over the points inside x_range that have an error.      *)

RECURSIVE RSum(_, _, _)
RSum(F(_), S, acc) ==
    IF S = {} THEN acc
    ELSE LET i == CHOOSE j \in S : TRUE
         IN  RSum(F, S \ {i}, RAdd(acc, F(i)))

Weighted(obj, x_range) ==
    { i \in 1 .. Len(obj.pts) :
        ~OutsideX(GetX(obj, i), x_range) /\ GetE(obj, i) # RZero }

RefWSum(obj, x_range) ==
    LET W(i) == RDiv(ROne, GetE(obj, i))
    IN  RSum(W, Weighted(obj, x_range), RZero)

RefMean(obj, x_range) ==
    LET WY(i) == RDiv(GetY(obj, i), GetE(obj, i))
    IN  IF Weighted(obj, x_range) = {} THEN RZero
        ELSE RDiv(RSum(WY, Weighted(obj, x_range), RZero), RefWSum(obj, x_range))

RefVar(obj, x_range) ==
    LET m == RefMean(obj, x_range)
        WD(i) == RDiv(RMul(RSub(GetY(obj, i), m), RSub(GetY(obj, i), m)),
                      GetE(obj, i))
    IN  IF Weighted(obj, x_range) = {} THEN RZero
        ELSE RDiv(RSum(WD, Weighted(obj, x_range), RZero), RefWSum(obj, x_range))

\* Point i lies more than k standard deviations from the weighted mean
\* (there is a mean once some point inside x_range has an error).
IsOutlier(obj, x_range, k, i) ==
    LET d == RSub(GetY(obj, i), RefMean(obj, x_range))
    IN  /\ Weighted(obj, x_range) # {}
        /\ RGt(RMul(d, d), RMul(RMul(k, k), RefVar(obj, x_range)))

NonEmptyInside(obj, x_range) ==
    { i \in 1 .. Len(obj.pts) :
        /\ ~(GetY(obj, i) = RZero /\ GetE(obj, i) = RZero)
        /\ ~OutsideX(GetX(obj, i), x_range) }

\* (min, min > 0, max) of the y values of the points in S
Extrema(obj, S) ==
    LET ys == { GetY(obj, i) : i \in S }
        pos == { y \in ys : RGt(y, RZero) }
        Least(T) == IF T = {} THEN None
                    ELSE CHOOSE y \in T : \A z \in T : RLe(y, z)
        Greatest(T) == IF T = {} THEN None
                       ELSE CHOOSE y \in T : \A z \in T : RGe(y, z)
    IN  <<Least(ys), Least(pos), Greatest(ys)>>

-----------------------------------------------------------------------------
(* Plotters: a Plotter is constructed, series are added, compile() is      *)
(* called, in any order and any number of times.                           *)

MaxObjs == 2

\* Text measures: a pad with margins of 1/10 and text offsets of 1/20;
\* text_size = 1/20 and text_spacing = 4/3 give a spacing of 1/100.
DefaultTitle == << <<Q(1, 10), Q(1, 20)>>, <<Q(3, 20), Q(1, 20)>> >>

Kw(title, subtitle, text_pos, y_pad, args) ==
    [left_margin |-> Q(1, 10), right_margin |-> Q(1, 10),
     top_margin |-> Q(1, 10), bottom_margin |-> Q(1, 10),
     title |-> title, subtitle |-> subtitle, text_pos |-> text_pos,
     text_size |-> Q(1, 20), text_spacing |-> Q(4, 3),
     text_offset_left |-> Q(1, 20), text_offset_right |-> Q(1, 20),
     text_offset_top |-> Q(1, 20), text_offset_bottom |-> Q(1, 20),
     y_pad_bot |-> y_pad, y_pad_top |-> y_pad, args |-> args]

Args(x_range, y_range, y_min, y_max, ydivs, legend_columns, vertical) ==
    [x_range |-> x_range, x_pad |-> None, x_pad_left |-> RZero,
     x_pad_right |-> RZero, y_range |-> y_range, y_min |-> y_min,
     y_max |-> y_max, ignore_outliers_y |-> RZero, ydivs |-> ydivs,
     legend_columns |-> legend_columns, legend_vertical_order |-> vertical]

Graph(ys) ==
    [cls |-> "TGraph",
     pts |-> [i \in 1 .. Len(ys) |-> Pt(I(i - 1), I(i - 1), I(ys[i]), RZero)]]
Hist(ys, es) ==
    [cls |-> "TH1",
     pts |-> [i \in 1 .. Len(ys) |-> Pt(I(i - 1), I(i), I(ys[i]), I(es[i]))]]

\* What the three tick probes of one _fix_bad_yticks call may answer.  The
\* loop stops at the first probe that needs no fix, so the answers after it
\* are never asked for; without small ydivs no probe is made at all.
ProbeAnswers(args) ==
    IF args.ydivs # None /\ args.ydivs[1] % 100 <= 5
      THEN { [i \in 1 .. 3 |-> i <= n] : n \in 0 .. 3 }
      ELSE { [i \in 1 .. 3 |-> FALSE] }

\* p.add([obj], legend=labels): one object with a list of legend entries
DoAdd(Series, LabelLists) ==
    /\ Len(plotter.objs) < MaxObjs
    /\ \E obj \in Series, labels \in LabelLists :
         /\ plotter' = PlotterAdd(plotter, <<obj>>, labels)
         /\ call' = [op |-> "add", before |-> plotter]
    /\ UNCHANGED <<occVars, mmVars>>

\* p.compile(), with something added (objs[0] is read for the frame)
DoCompile ==
    /\ Len(plotter.objs) > 0
    /\ LET q == CompileText(plotter)
       IN  \E need_fix \in ProbeAnswers(plotter.args) :
              plotter' = CompilePad(q, need_fix)
    /\ call' = [op |-> "compile", before |-> plotter]
    /\ UNCHANGED <<occVars, mmVars>>

-----------------------------------------------------------------------------
(* Plotters exercising the y range: no legend, with and without a title,   *)
(* automatic, half-given and given y_range, clamps and tick divisions.     *)

RangeSeries ==
    { Graph(<<0, 10>>), Graph(<<5, 20>>), Graph(<<-2, 3>>),
      Hist(<<0, 0>>, <<0, 0>>), Hist(<<2, 9>>, <<1, 0>>) }

RangeKw(title, x_range, y_range, y_min, y_max, ydivs) ==
    Kw(title, <<>>, "auto", Q(1, 20),
       Args(x_range, y_range, y_min, y_max, ydivs, 1, FALSE))

RangeKws ==
    { RangeKw(title, <<None, None>>, auto, None, None, None) :
        title \in { None, DefaultTitle } }
    \cup
    { RangeKw(None, <<None, None>>, auto, c[1], c[2], c[3]) :
        c \in { <<I(1), I(10), None>>, <<None, I(10), I(2)>>,
                <<None, None, I(2)>> } }
    \cup
    { RangeKw(None, <<None, None>>, <<None, I(30)>>, None, None, I(506)) }
    \cup
    { RangeKw(title, xr, <<I(1), I(8)>>, c[1], c[2], c[3]) :
        title \in { None, DefaultTitle },
        xr \in { <<None, None>>, <<I(0), I(2)>> },
        c \in { <<None, None, None>>, <<I(2), I(7), I(2)>> } }

RangeInit ==
    /\ \E kw \in RangeKws : plotter = NewPlotter(kw, ROne)
    /\ call = [op |-> "new", before |-> None]
    /\ ranges = <<>> /\ added = <<>> /\ mmIn = None /\ mmOut = None

RangeAdd == DoAdd(RangeSeries, { <<None>> })

RangeNext == RangeAdd \/ DoCompile

SpecRange == RangeInit /\ [][RangeNext]_vars

-----------------------------------------------------------------------------
(* Claims about the y range of a compiled plotter.                         *)

\* The state right after a compile() call that returned
Compiled == call.op = "compile" /\ plotter.raised = None

\* compile() with an automatic y range, no clamps and no tick correction
\* (ydivs unset: the range is the one "before tick correction"), the same
\* padding p on both sides, and a data range lo < hi
PlainAuto ==
    /\ Compiled
    /\ plotter.args.y_range = auto
    /\ plotter.args.y_min = None /\ plotter.args.y_max = None
    /\ plotter.args.ydivs = None
    /\ plotter.y_pad_bot = plotter.y_pad_top
    /\ RLt(plotter.y_pad_bot, Q(1, 2))
    /\ plotter.data_y_min # None
    /\ RLt(plotter.data_y_min, plotter.data_y_max)

PaddingIdentity ==
    RSub(plotter.data_y_max, plotter.data_y_min)
        = RMul(RSub(plotter.y_range[2], plotter.y_range[1]),
               RSub(ROne, RMul(I(2), plotter.y_pad_bot)))

\* The lower bound the padding alone would give: lo - p (hi - lo) / (1 - 2p)
UnclampedLow ==
    RSub(plotter.data_y_min,
         RDiv(RMul(plotter.y_pad_bot,
                   RSub(plotter.data_y_max, plotter.data_y_min)),
              RSub(ROne, RMul(I(2), plotter.y_pad_bot))))

Scenario ==
    /\ PlainAuto
    /\ plotter.objs = << Graph(<<0, 10>>), Graph(<<5, 20>>) >>
    /\ plotter.args.ignore_outliers_y = RZero
    /\ plotter.y_pad_bot = Q(5, 100) /\ plotter.y_pad_top = Q(5, 100)

RawRange == AutoYRange(plotter.objs, plotter.x_range, plotter.args).y_range

\* |a - b| <= 1/4: "approximately" for ranges of this size
Approx(a, b) == RLe(RSub(a, b), Q(1, 4)) /\ RLe(RSub(b, a), Q(1, 4))

ClampMin ==
    IF RGe(plotter.data_y_min, RZero)
         /\ (plotter.args.y_min = None \/ RLt(plotter.args.y_min, RZero))
      THEN RZero
      ELSE plotter.args.y_min

\* C7: after compile() with an automatic y range, the final y_range lies
\* within the clamps: y_range[0] >= y_min (0 for non-negative data without
\* a y_min) and y_range[1] <= y_max, also after the tick correction.
C7_WithinClamps ==
    (Compiled /\ plotter.args.y_range = auto /\ plotter.y_range # None) =>
        /\ ClampMin # None => RGe(plotter.y_range[1], ClampMin)
        /\ plotter.args.y_max # None
              => RLe(plotter.y_range[2], plotter.args.y_max)

\* Both bounds of the range argument r are given
BothGiven(r) == r # auto /\ r # None /\ r[1] # None /\ r[2] # None

\* C8: with both bounds given the estimators return them unchanged and do
\* not scan the data: x_range and y_range after compile() are the given
\* ranges, whatever the series, paddings, clamps, text or ydivs, and
\* get_minmax_y was not called.
C8_ExplicitRangeUnchanged ==
    call.op = "compile" =>
        /\ BothGiven(plotter.args.y_range)
              => plotter.y_range = plotter.args.y_range /\ ~plotter.scanned
        /\ BothGiven(plotter.args.x_range)
              => plotter.x_range = plotter.args.x_range

\* C8 witness: a compile() with both ranges given, clamps tighter than the
\* given y range, small ydivs and a title to place, over data reaching
\* beyond the given range
C8_Witness ==
    /\ Compiled
    /\ BothGiven(plotter.args.y_range) /\ BothGiven(plotter.args.x_range)
    /\ plotter.args.y_max # None /\ plotter.args.ydivs # None
    /\ RLt(plotter.args.y_max, plotter.args.y_range[2])
    /\ Len(plotter.t.titles) > 0
    /\ plotter.objs[1] = Graph(<<5, 20>>)
    /\ plotter.y_range = plotter.args.y_range

\* No series has any nonzero content
NoContent(objs) ==
    \A k \in 1 .. Len(objs) : \A i \in 1 .. Len(objs[k].pts) :
        objs[k].pts[i].y = RZero /\ objs[k].pts[i].e = RZero

\* C10: if no series has any nonzero content, the automatic y range falls
\* back to (0, 0) and compile() completes without raising.
C10_DegenerateFallback ==
    (call.op = "compile" /\ NoContent(plotter.objs)
        /\ plotter.args.y_range = auto) =>
        /\ plotter.raised = None
        /\ plotter.y_range = <<RZero, RZero>>

-----------------------------------------------------------------------------
(* Plotters with text: titles, legends of one or three columns and the      *)
(* automatic or a fixed top placement, over a histogram with one high bin   *)
(* and a graph whose points lie on its bin edges.                           *)

NarrowLabel == <<Q(1, 20), Q(1, 20)>>
WideLabel == <<Q(1, 10), Q(1, 20)>>

TextSeries == { Hist(<<1, 1, 10, 1>>, <<0, 0, 0, 0>>), Graph(<<1, 1, 1>>) }

TextLabelLists == { <<>>, <<WideLabel>>, <<WideLabel, NarrowLabel>> }

TextKw(title, text_pos, legend_columns, vertical) ==
    Kw(title, <<>>, text_pos, Q(1, 20),
       Args(<<None, None>>, auto, None, None, None, legend_columns, vertical))

TextKws ==
    { TextKw(title, text_pos, lc[1], lc[2]) :
        title \in { None, DefaultTitle },
        text_pos \in { "auto", "topright" },
        lc \in { <<1, FALSE>>, <<3, FALSE>>, <<3, TRUE>> } }

TextInit ==
    /\ \E kw \in TextKws : plotter = NewPlotter(kw, ROne)
    /\ call = [op |-> "new", before |-> None]
    /\ ranges = <<>> /\ added = <<>> /\ mmIn = None /\ mmOut = None

TextAdd == DoAdd(TextSeries, TextLabelLists)

TextNext == TextAdd \/ DoCompile

SpecText == TextInit /\ [][TextNext]_vars

-----------------------------------------------------------------------------
(* Claims about the text of a compiled plotter.                            *)

\* The x-interval [x_low, x_high] of an entry, in axes coordinates, overlaps
\* the x-extent of a text box
OverlapsBox(frame, e, box) ==
    /\ RLt(user_to_axes_x(frame, e.x_min), box[2])
    /\ RGt(user_to_axes_x(frame, e.x_max), box[1])

\* Entry e lies behind the text box: its upper y-extent, in axes coordinates
\* of the final y_range, is above the box's lower edge less the spacing
BehindText(p, e, box) ==
    /\ OverlapsBox(p.frame, e, box)
    /\ RGt(user_to_axes_y(p.y_range[1], p.y_range[2], e.y_max), box[3])

\* compile() returned on a plotter with an automatic top y bound and a top
\* placement of its text
AutoTopCompiled ==
    /\ Compiled
    /\ plotter.auto_y_top
    /\ plotter.text_pos \in PosWithTop
    /\ plotter.y_range # None /\ plotter.y_range[1] # plotter.y_range[2]

\* C1: after compile() with an automatic top y bound and a top placement no
\* data is behind text: no entry of any series whose x-interval overlaps the
\* x-extent of a placed title or legend entry reaches, in axes coordinates
\* of the final y_range, above that box's lower edge less
\* y_text_data_spacing.
C1_NoDataBehindText ==
    AutoTopCompiled =>
        LET es == AllEntries(plotter.objs, Len(plotter.objs))
            boxes == TextOcclusions(plotter.pad, plotter.placed)
        IN  \A i \in 1 .. Len(es) : \A k \in 1 .. Len(boxes) :
                ~BehindText(plotter, es[i], boxes[k])

\* The candidate list of _auto_text_pos_and_pad
Candidates(p) == IF p.text_pos = "auto" THEN AutoPositions ELSE <<p.text_pos>>

\* cost: _get_required_top_padding with the text placed at candidate c, on
\* the plotter q as compile() has it when it calls _auto_text_pos_and_pad
Cost(q, c) == GetRequiredTopPadding(q, PlaceText(q, c), DataOccs(q))

\* _auto_text_pos_and_pad on q gets to its loop and every cost is a number
Evaluates(q) ==
    /\ Len(q.t.titles) > 0 \/ Len(q.lg.legends) > 0
    /\ \A i \in 1 .. Len(Candidates(q)) : Candidates(q)[i] \in PosWithTop
    /\ Len(Candidates(q)) > 1 \/ q.auto_y_top
    /\ DataOccs(q) # ZeroDivisionError
    /\ \A i \in 1 .. Len(Candidates(q)) :
          Cost(q, Candidates(q)[i]) # ZeroDivisionError

\* The padding a candidate leads to: max(_y_min_pad_top, cost(c))
PadOf(q, c) == RMax(q.y_min_pad_top, Cost(q, c))

\* The selected candidate is a candidate, no candidate of the list leads to
\* less padding, and _y_pad_top is the padding the selected one leads to
Optimal(q, p) ==
    /\ \E i \in 1 .. Len(Candidates(q)) : Candidates(q)[i] = p.text_pos
    /\ \A i \in 1 .. Len(Candidates(q)) :
          RLe(PadOf(q, p.text_pos), PadOf(q, Candidates(q)[i]))
    /\ p.y_pad_top = PadOf(q, p.text_pos)

\* C2: when _auto_text_pos_and_pad evaluates its candidates, the text_pos c
\* it selects satisfies max(_y_min_pad_top, cost(c)) <=
\* max(_y_min_pad_top, cost(c')) for every candidate c' of the list, those
\* its short circuit skipped included, and _y_pad_top is
\* max(_y_min_pad_top, cost(c)).
C2_PlacementOptimal ==
    call.op = "compile" =>
        (Evaluates(CompileRanges(call.before))
            => Optimal(CompileRanges(call.before), plotter))

\* C2 witness: a compile() under text_pos 'auto' whose first candidate
\* costs more than the minimum padding and more than a later candidate,
\* which is the one selected
C2_Witness ==
    /\ call.op = "compile"
    /\ call.before.text_pos = "auto"
    /\ Evaluates(CompileRanges(call.before))
    /\ plotter.text_pos # "top"
    /\ RGt(Cost(CompileRanges(call.before), "top"), plotter.y_min_pad_top)
    /\ RLt(Cost(CompileRanges(call.before), plotter.text_pos),
           Cost(CompileRanges(call.before), "top"))

\* p with one more legend entry
WithEntry(p, label) == [p EXCEPT !.legend_items = Append(@, label)]

\* _y_pad_top after _auto_text_pos_and_pad in compile() on p: with the entry
\* label added to the legend it is no less than without, if both return
PadNotLess(p, label) ==
    (CompileText(p).raised = None /\ CompileText(WithEntry(p, label)).raised = None)
        => RLe(CompileText(p).y_pad_top, CompileText(WithEntry(p, label)).y_pad_top)

\* C3: one more legend entry, with the series, titles, margins, text sizes,
\* legend_columns and candidate placements the same, never lowers the
\* _y_pad_top compile() computes.
C3_LegendMonotone ==
    call.op = "compile" =>
        \A label \in { NarrowLabel, WideLabel } : PadNotLess(call.before, label)

\* C3 for legends of a single column: one more legend entry never lowers the
\* _y_pad_top compile() computes when legend_columns = 1.
C3_LegendMonotoneSingleColumn ==
    (call.op = "compile" /\ call.before.args.legend_columns = 1) =>
        \A label \in { NarrowLabel, WideLabel } : PadNotLess(call.before, label)

\* C3 witness: a compile() of a plotter with a single-column legend of at
\* least one entry, where one more entry raises _y_pad_top
C3_Witness ==
    /\ Compiled
    /\ call.before.args.legend_columns = 1
    /\ Len(call.before.legend_items) > 0
    /\ CompileText(WithEntry(call.before, NarrowLabel)).raised = None
    /\ RLt(plotter.y_pad_top,
           CompileText(WithEntry(call.before, NarrowLabel)).y_pad_top)

-----------------------------------------------------------------------------
(* The y range on a logarithmic pad (plot.py 487-491, 565-675).            *)
(*                                                                         *)
(* numpy's log10 returns -inf for 0 and nan for a negative number, with a  *)
(* warning and no exception, and the arithmetic after it follows IEEE 754. *)
(* A float is here a rational <<n, d>>, one of the three values below, or  *)
(* <<n, d, 10>> for the power 10 ** (n / d), which is positive.  The       *)
(* values handed to log10 are powers of ten, whose logarithm is exact.     *)

PosInf == <<1, 0, 0>>
NegInf == <<-1, 0, 0>>
NaN == <<0, 0, 0>>

IsFinite(a) == Len(a) = 2

FNeg(a) == IF IsFinite(a) THEN RSub(RZero, a) ELSE <<-a[1], 0, 0>>

FAdd(a, b) ==
    IF a = NaN \/ b = NaN THEN NaN
    ELSE IF IsFinite(a) /\ IsFinite(b) THEN RAdd(a, b)
    ELSE IF IsFinite(a) THEN b
    ELSE IF IsFinite(b) \/ a = b THEN a
    ELSE NaN

FMul(a, b) ==
    IF a = NaN \/ b = NaN THEN NaN
    ELSE IF IsFinite(a) /\ IsFinite(b) THEN RMul(a, b)
    ELSE IF a = RZero \/ b = RZero THEN NaN
    ELSE IF (a[1] > 0) = (b[1] > 0) THEN PosInf ELSE NegInf

\* a / h for a finite h > 0
FDiv(a, h) == IF IsFinite(a) THEN RDiv(a, h) ELSE a

\* a < b: False whenever one side is nan
FLt(a, b) ==
    IF a = NaN \/ b = NaN THEN FALSE
    ELSE IF IsFinite(a) /\ IsFinite(b) THEN RLt(a, b)
    ELSE IF IsFinite(a) THEN b = PosInf
    ELSE IF IsFinite(b) THEN a = NegInf
    ELSE a = NegInf /\ b = PosInf

\* np.log10(v) of a rational v: exact on the powers of ten
RECURSIVE Log10(_)
Log10(v) ==
    CASE v = RZero -> NegInf
      [] RLt(v, RZero) -> NaN
      [] v = ROne -> RZero
      [] v[2] = 1 /\ v[1] % 10 = 0 -> RAdd(Log10(Q(v[1] \div 10, 1)), ROne)
      [] v[1] = 1 /\ v[2] % 10 = 0 -> RSub(Log10(Q(1, v[2] \div 10)), ROne)

\* np.power(10, e)
Power10(e) ==
    IF e = NegInf THEN RZero
    ELSE IF IsFinite(e) THEN <<e[1], e[2], 10>>
    ELSE e

\* v > 0, for a float v
IsPositive(v) == IF IsFinite(v) THEN RGt(v, RZero) ELSE v = PosInf \/ v[3] = 10

\* Plotter._auto_y_range when self.pad.GetLogy(): the base of the range is
\* data_y_pos, and no positive content leaves no range
AutoYRangeLog(objs, x_range, args, mm) ==
    IF args.y_range = None THEN NoYRange
    ELSE IF args.y_range # auto /\ args.y_range[1] # None /\ args.y_range[2] # None
      THEN [NoYRange EXCEPT !.y_range = args.y_range]
    ELSE IF mm[2] = None
      THEN [NoYRange EXCEPT !.scanned = TRUE, !.data_y_min = mm[1],
                            !.data_y_pos = mm[2], !.data_y_max = mm[3]]
    ELSE [ScannedYRange(<<mm[2], mm[2], mm[3]>>,
                        IF args.y_range = auto THEN <<None, None>> ELSE args.y_range,
                        args)
            EXCEPT !.data_y_min = mm[1]]

\* Plotter._get_padded_range on floats (pad_bot + pad_top < 1)
GetPaddedRangeFloat(data_min, data_max, pad_bot, pad_top, diff) ==
    << FAdd(data_min, FNeg(FDiv(FMul(pad_bot, diff), RSub(RSub(ROne, pad_bot), pad_top)))),
       FAdd(data_max, FDiv(FMul(pad_top, diff), RSub(RSub(ROne, pad_bot), pad_top))) >>

\* "Adjust for log" of _pad_y_range on a clamp: y_min or y_max
LogClamp(c) == IF c # None /\ RGt(c, RZero) THEN Log10(c) ELSE None

\* "Apply constraints" and "Undo log" of _pad_y_range when self.logy: first
\* is the range of the first pass, all values being logarithms
ConstrainLog(first, data_min, data_max, pad_bot, pad_top, y_min, y_max) ==
    LET low == y_min # None /\ FLt(first[1], y_min)
        high == y_max # None /\ FLt(y_max, first[2])
        data_min2 == IF low THEN y_min ELSE data_min
        data_max2 == IF high THEN y_max ELSE data_max
        out == IF low \/ high
                 THEN GetPaddedRangeFloat(data_min2, data_max2,
                                          IF low THEN RZero ELSE pad_bot,
                                          IF high THEN RZero ELSE pad_top,
                                          FAdd(data_max2, FNeg(data_min2)))
                 ELSE first
    IN  << Power10(out[1]), Power10(out[2]) >>

\* _pad_y_range when self.logy, after "Adjust for log": data_min and
\* data_max are the logarithms of the bounds
PadLog(data_min, data_max, pad_bot, pad_top, args) ==
    ConstrainLog(GetPaddedRangeFloat(data_min, data_max, pad_bot, pad_top,
                                     FAdd(data_max, FNeg(data_min))),
                 data_min, data_max, pad_bot, pad_top,
                 LogClamp(args.y_min), LogClamp(args.y_max))

\* _pad_y_range without self.logy on a logarithmic pad: the padding is
\* linear, and the rule for non-negative data is skipped
PadLinear(y_range, pad_bot, pad_top, args, need_fix) ==
    FixTicks(ApplyConstraints(GetPaddedRange(y_range[1], y_range[2], pad_bot, pad_top),
                              y_range[1], y_range[2], pad_bot, pad_top,
                              args.y_min, args.y_max),
             args.ydivs, need_fix)

\* Plotter._pad_y_range on a 1-D plot whose pad is logarithmic: the new
\* self.y_range.  q.logy is self.logy, the logy argument of the constructor.
PadYRangeLog(q, pad_bot, pad_top, need_fix) ==
    IF ~q.auto_y_bot /\ ~q.auto_y_top THEN q.y_range
    ELSE IF q.logy
      THEN PadLog(Log10(q.y_range[1]), Log10(q.y_range[2]), pad_bot, pad_top, q.args)
    ELSE PadLinear(q.y_range, pad_bot, pad_top, q.args, need_fix)

\* The axis bounds np.log10 is applied to in _pad_y_range
LogArgs(q) ==
    IF q.logy /\ (q.auto_y_bot \/ q.auto_y_top) THEN q.y_range ELSE <<>>

\* compile() on a logarithmic pad: self.y_range = self._auto_y_range(...)
CompileYRangeLog(p) ==
    Assign(p, AutoYRangeLog(p.objs, p.x_range, p.args,
                            GetMinmaxY(p.objs, p.x_range, p.args.ignore_outliers_y,
                                       Len(p.objs))))

\* The last step of compile(), _pad_y_range, on a logarithmic pad.
\* log_args keeps what np.log10 was applied to as an axis bound.
CompilePadLog(q, need_fix) ==
    [SetYRange(q, PadYRangeLog(q, IF q.auto_y_bot THEN q.y_pad_bot ELSE RZero,
                               IF q.auto_y_top THEN q.y_pad_top ELSE RZero,
                               need_fix))
        EXCEPT !.log_args = LogArgs(q)]

\* Plotter.compile() on a logarithmic pad
CompileLog(p, need_fix) ==
    CompilePadLog(CompilePlace(CompileAutoText(
                      CompileFrame(CompileYRangeLog(CompileXRange(p))))),
                  need_fix)

\* Plotter(pad, logy=logy, ...) on a pad that is logarithmic after
\* _set_pad_properties: logy is True, or it is None and the pad was set
\* logarithmic by its owner
NewLogPlotter(kw, logy) ==
    NewPlotter(kw, ROne) @@ [logy |-> logy, pad_logy |-> TRUE, log_args |-> <<>>]

LogSeries ==
    { Graph(<<1, 100>>), Graph(<<0, 10>>), Graph(<<0, 0>>),
      Hist(<<10, 1000>>, <<0, 0>>) }

LogKws ==
    { Kw(None, <<>>, "auto", y_pad,
         Args(<<None, None>>, y_range, y_min, y_max, None, 1, FALSE)) :
        y_pad \in { Q(1, 20) },
        y_range \in { auto, <<I(0), None>>, <<I(1), None>>, <<I(-1), None>>,
                      <<None, I(100)>>, <<None, I(0)>> },
        y_min \in { None, I(0), I(10) },
        y_max \in { None, I(0), I(100) } }

LogInit ==
    /\ \E kw \in LogKws, logy \in BOOLEAN : plotter = NewLogPlotter(kw, logy)
    /\ call = [op |-> "new", before |-> None]
    /\ ranges = <<>> /\ added = <<>> /\ mmIn = None /\ mmOut = None

LogAdd == DoAdd(LogSeries, { <<None>> })

\* p.compile() on a logarithmic pad
LogCompile ==
    /\ Len(plotter.objs) > 0
    /\ \E need_fix \in ProbeAnswers(plotter.args) :
          plotter' = CompileLog(plotter, need_fix)
    /\ call' = [op |-> "compile", before |-> plotter]
    /\ UNCHANGED <<occVars, mmVars>>

LogNext == LogAdd \/ LogCompile

SpecLog == LogInit /\ [][LogNext]_vars

\* C11: every compile() on a log-y pad applies log10 to positive axis bounds
\* only and leaves a y_range whose lower bound is strictly positive,
\* whatever y_range, y_min, y_max and the logy argument are.
C11_LogGuard ==
    (call.op = "compile" /\ plotter.pad_logy) =>
        /\ \A i \in 1 .. Len(plotter.log_args) : IsPositive(plotter.log_args[i])
        /\ plotter.y_range # None => IsPositive(plotter.y_range[1])

-----------------------------------------------------------------------------
(* The legend grid of a compiled plotter (SpecText).                       *)

\* The column a placed TLegend b stands in: its X1 is start_x of that column
PlacedColumn(p, b) ==
    CHOOSE c \in 0 .. p.lg.legend_columns :
        b.x1 = RAdd(p.placed.legends[1].x1,
                    RMul(RAdd(p.lg.legend_column_width, legend_column_separation),
                         I(c)))

\* The row a placed TLegend b stands in: the number of entries above it in
\* its column
PlacedRow(p, b) ==
    Cardinality({ j \in 1 .. Len(p.placed.legends) :
                    /\ p.placed.legends[j].x1 = b.x1
                    /\ RGt(p.placed.legends[j].y2, b.y2) })

\* Entry k (0-based) of legend_items is placed exactly once, in the column
\* and the row of the documented layout
InGrid(p, k) ==
    LET c == p.args.legend_columns
        rows == (Len(p.legend_items) + c - 1) \div c
        vertical == p.args.legend_vertical_order
    IN  /\ Cardinality({ j \in 1 .. Len(p.placed.legends) :
                            p.placed.legends[j].item = k + 1 }) = 1
        /\ \A j \in 1 .. Len(p.placed.legends) :
              p.placed.legends[j].item = k + 1 =>
                /\ PlacedColumn(p, p.placed.legends[j])
                     = IF vertical THEN k \div rows ELSE k % c
                /\ PlacedRow(p, p.placed.legends[j])
                     = IF vertical THEN k % rows ELSE k \div c

\* C15: after compile(), every legend entry is placed exactly once, entry k
\* in column k mod c and row k div c when legend_vertical_order is False and
\* in column k div rows and row k mod rows when it is True, where
\* rows = ceil(n / c) and c = legend_columns.
C15_LegendGrid ==
    (Compiled /\ Len(plotter.legend_items) > 0) =>
        \A k \in 0 .. Len(plotter.legend_items) - 1 : InGrid(plotter, k)

-----------------------------------------------------------------------------
(* Plotter.add and Plotter.add_primitives with all their arguments         *)
(* (plot.py 700-807, 1001-1031, 1593-1603, 1787-1798), for TH1 and TGraph  *)
(* series.                                                                 *)
(*                                                                         *)
(* A ROOT object is here [cls, pts, id, name, rxplot_draw_opt]: id tells   *)
(* objects apart (a Clone is a new object), rxplot_draw_opt is the Python  *)
(* attribute add sets on it.  An argument that is a string or a list       *)
(* (opts, legend_opts) is Str(s) or List(l), and NotGiven when left out;   *)
(* legend is a record of its kind ("none", "auto", "labels" or "entries")  *)
(* and its list; legend_order is [given, l]; an index argument (pos,       *)
(* legend_pos) is None or <<i>>.  A legend entry (obj, label, opt) is      *)
(* <<width, height, id of obj, label, opt>>, with the measured size of its *)
(* label in front.                                                         *)

Str(s) == [kind |-> "str", s |-> s, l |-> <<>>]
List(l) == [kind |-> "list", s |-> "", l |-> l]
NotGiven == [kind |-> "none", s |-> "", l |-> <<>>]

\* The Python None given as a draw option
OptNone == "<None>"

RuntimeError == <<[exc |-> "RuntimeError"]>>
IndexError == <<[exc |-> "IndexError"]>>

\* _arg(val, i) for a string or a list val
Arg(val, i) == IF val.kind = "list" THEN val.l[i + 1] ELSE val.s

\* Plotter._default_legend_opt on the draw options of the model
DefaultLegendOpt(plot_opt) ==
    CASE plot_opt = "HIST" -> "L"
      [] plot_opt \in { "P", "P2+" } -> "P"
      [] plot_opt = "PE" -> "PE"
      [] plot_opt = "E" -> "LE"
      [] OTHER -> "L"

\* get_text_size(label, text_size), as ROOT measures it
LabelSize(label) == IF label = "B" THEN WideLabel ELSE NarrowLabel

\* The legend entry [obj, label, opt]
Entry(obj, label, opt) ==
    <<LabelSize(label)[1], LabelSize(label)[2], obj.id, label, opt>>

\* "if x[1]": the filter of _get_legend_list without the test of the option
\* (a faulty variant)
KeepEntryWithLabel(x) == x[4] # ""

\* "if x[1] and x[2]": the label and the option of entry x are not empty
KeepEntry(x) == x[4] # "" /\ x[5] # ""

\* out[i] for a Python index i into a list of n elements: its 1-based place
PyIndex(n, i) == IF i >= 0 THEN i + 1 ELSE n + i + 1

\* "Reorder" and the filter of _get_legend_list
Reorder(out, legend_order) ==
    IF Len(legend_order) = 0
      THEN [raised |-> None, items |-> SelectSeq(out, KeepEntry)]
    ELSE IF \E k \in 1 .. Len(legend_order) :
                PyIndex(Len(out), legend_order[k]) \notin 1 .. Len(out)
      THEN [raised |-> IndexError, items |-> <<>>]
    ELSE [raised |-> None,
          items |-> SelectSeq([k \in 1 .. Len(legend_order) |->
                                  out[PyIndex(Len(out), legend_order[k])]],
                              KeepEntry)]

\* The length test of _get_legend_list left out (a faulty variant): zip
\* stops at the shorter list
LengthsAgree(labels, objs) == FALSE

\* "if len(legend) != len(objs): raise RuntimeError"
LengthsDiffer(labels, objs) == Len(labels) # Len(objs)

\* "List of labels" of _get_legend_list
LabelList(objs, opts, labels, legend_order, legend_opts) ==
    IF LengthsDiffer(labels, objs) THEN [raised |-> RuntimeError, items |-> <<>>]
    ELSE IF legend_opts.kind = "list" /\ Len(legend_opts.l) < Len(objs)
      THEN [raised |-> IndexError, items |-> <<>>]
    ELSE Reorder([i \in 1 .. (IF Len(labels) < Len(objs) THEN Len(labels) ELSE Len(objs)) |->
                     Entry(objs[i], labels[i],
                           IF legend_opts.kind = "none"
                             THEN DefaultLegendOpt(Arg(opts, i - 1))
                             ELSE Arg(legend_opts, i - 1))],
                 legend_order)

\* Plotter._get_legend_list: the list it returns, or the exception it raises
GetLegendList(objs, opts, legend, legend_order, legend_opts) ==
    IF legend.kind = "none" THEN [raised |-> None, items |-> <<>>]
    ELSE IF legend.kind = "auto"
      THEN IF Len(objs) < 2 THEN [raised |-> None, items |-> <<>>]
           ELSE LabelList(objs, opts, [i \in 1 .. Len(objs) |-> objs[i].name],
                          legend_order, legend_opts)
    ELSE IF Len(legend.l) = 0 THEN [raised |-> IndexError, items |-> <<>>]
    ELSE IF legend.kind = "entries" THEN [raised |-> None, items |-> legend.l]
    ELSE LabelList(objs, opts, legend.l, legend_order, legend_opts)

\* obj.Clone() left out (a faulty variant): the stack is made of the inputs
CloneAlias(obj, id) == obj

\* obj.Clone(): a new object
Clone(obj, id) == [obj EXCEPT !.id = id]

\* h.Add(other) of two TH1 with the same bins (the errors of the model's
\* histograms are 0, and so is their sum in quadrature)
HistAdd(h, other) ==
    [h EXCEPT !.pts = [i \in 1 .. Len(h.pts) |->
                          [h.pts[i] EXCEPT !.y = RAdd(@, other.pts[i].y)]]]

\* The list objs after the object obj points to was modified
Modified(objs, obj) ==
    [i \in 1 .. Len(objs) |-> IF objs[i].id = obj.id THEN obj ELSE objs[i]]

\* One turn of the loop of _make_stack: st is [new_objs, inputs], obj the
\* clone of the input
StackStep(st, obj) ==
    IF Len(st.new_objs) > 0
      THEN [new_objs |-> Append(st.new_objs,
                                HistAdd(obj, st.new_objs[Len(st.new_objs)])),
            inputs |-> Modified(st.inputs,
                                HistAdd(obj, st.new_objs[Len(st.new_objs)]))]
      ELSE [new_objs |-> <<obj>>, inputs |-> st.inputs]

\* _make_stack(objs) after n turns: the new list, and the list objs as the
\* turns left it.  The clones are the objects next_id, next_id + 1, ...
RECURSIVE MakeStack(_, _, _)
MakeStack(objs, next_id, n) ==
    IF n = 0 THEN [new_objs |-> <<>>, inputs |-> objs]
    ELSE StackStep(MakeStack(objs, next_id, n - 1),
                   Clone(objs[n], next_id + n - 1))

Reverse(s) == [i \in 1 .. Len(s) |-> s[Len(s) + 1 - i]]

\* The place list[pos:pos] names in a list of n elements
SlicePlace(n, pos) ==
    IF pos[1] < 0 THEN (IF n + pos[1] < 0 THEN 0 ELSE n + pos[1])
    ELSE IF pos[1] > n THEN n ELSE pos[1]

\* The options extended at the end whatever pos is (a faulty variant)
InsertAtEnd(list, pos, items) == list \o items

\* "list[pos:pos] = items" if pos is not None, else "list.extend(items)"
Insert(list, pos, items) ==
    IF pos = None THEN list \o items
    ELSE SubSeq(list, 1, SlicePlace(Len(list), pos)) \o items
           \o SubSeq(list, SlicePlace(Len(list), pos) + 1, Len(list))

\* self.draw_opts after "Output" of add and add_primitives
InsertOpts(list, pos, items) == Insert(list, pos, items)

\* add() storing the draw options before the legend is made (a faulty
\* variant)
AddOutputOptsFirst(p, a, objs, draw_opts, lg) ==
    [p EXCEPT !.raised = lg.raised,
              !.draw_opts = InsertOpts(@, a.pos, draw_opts)]

\* "Plot stack in reverse order" and "Output" of Plotter.add
AddOutput(p, a, objs, draw_opts, lg) ==
    IF lg.raised # None THEN [p EXCEPT !.raised = lg.raised]
    ELSE [p EXCEPT
            !.raised = None,
            !.objs = @ \o (IF a.stack THEN Reverse(objs) ELSE objs),
            !.draw_objs = Insert(@, a.pos, IF a.stack THEN Reverse(objs) ELSE objs),
            !.draw_opts = InsertOpts(@, a.pos,
                                     IF a.stack THEN Reverse(draw_opts) ELSE draw_opts),
            !.legend_items =
                Insert(@, a.legend_pos,
                       IF a.stack /\ a.reverse_legend_for_stack /\ ~a.legend_order.given
                         THEN Reverse(lg.items) ELSE lg.items)]

\* "Legend" of Plotter.add: objs is the list after "Styles", draw_opts the
\* options of its objects
AddStyled(p, a, objs, draw_opts) ==
    AddOutput(p, a, objs, draw_opts,
              GetLegendList(objs, List(draw_opts), a.legend, a.legend_order.l,
                            IF a.stack /\ a.legend_opts.kind = "none"
                              THEN Str("F") ELSE a.legend_opts))

\* draw_opts[i] of Plotter.add: the option given, or "C" for a TF1 given
\* the empty option
DrawOpt(a, i) ==
    IF Arg(a.opts, i - 1) = "" /\ a.objs[i].cls = "TF1" THEN "C"
    ELSE Arg(a.opts, i - 1)

\* "Styles" of Plotter.add: objs is the list after "Replace objs"; every
\* object is given the attribute __rxplot_draw_opt
AddReplaced(p, a, objs) ==
    AddStyled(p, a,
              [i \in 1 .. Len(objs) |->
                  [objs[i] EXCEPT !.rxplot_draw_opt = Arg(a.opts, i - 1)]],
              [i \in 1 .. Len(objs) |-> DrawOpt(a, i)])

\* obj.GetHistogram() of a TF1
GetHistogram(obj) == [obj EXCEPT !.cls = "TH1", !.func = TRUE]

\* The loop of "Replace objs": the histogram of every TF1, cloned; the
\* clones are the objects next_id, next_id + 1, ...
ReplaceFuncs(objs, next_id) ==
    [i \in 1 .. Len(objs) |->
        IF objs[i].cls = "TF1" THEN Clone(GetHistogram(objs[i]), next_id + i - 1)
        ELSE objs[i]]

\* Plotter.add(objs, opts, pos, legend_pos, stack, reverse_legend_for_stack,
\* legend, legend_order, legend_opts): the plotter after the call, raised
\* being the exception the call left through.  p.next_id is the first
\* object its clones may be.
AddSeries(p, a) ==
    IF Len(a.objs) = 0 THEN [p EXCEPT !.raised = None]
    ELSE AddReplaced([p EXCEPT !.next_id = @ + 2 * Len(a.objs)],
                     a,
                     ReplaceFuncs(IF a.stack
                                    THEN MakeStack(a.objs, p.next_id, Len(a.objs)).new_objs
                                    ELSE a.objs,
                                  p.next_id + Len(a.objs)))

\* The list the caller passed as objs, after the call
InputsAfter(p, a) ==
    IF a.stack THEN MakeStack(a.objs, p.next_id, Len(a.objs)).inputs ELSE a.objs

\* Plotter.add_primitives(objs, opts, pos)
AddPrimitives(p, a) ==
    [p EXCEPT !.raised = None,
              !.draw_objs = Insert(@, a.pos, a.objs),
              !.draw_opts = InsertOpts(@, a.pos,
                                       [i \in 1 .. Len(a.objs) |-> Arg(a.opts, i - 1)])]

\* Plotter.__init__ without objs: the members of NewPlotter and the lists
\* of the draw step.  canvas is the pad's list of primitives, in the order
\* of the Draw calls; draw_frame is the _draw_frame of self.args.
NewDrawPlotter(kw, draw_frame) ==
    NewPlotter(kw, ROne) @@
    [draw_objs |-> <<>>, draw_opts |-> <<>>, z_range |-> None, cache |-> <<>>,
     canvas |-> <<>>, draw_frame |-> draw_frame, next_id |-> 1,
     gpad |-> "own", elsewhere |-> <<>>]

-----------------------------------------------------------------------------
(* Any calls of add and add_primitives on a new plotter.  Every call is    *)
(* given objects of its own: the objects next_id, next_id + 1, ...         *)

MaxCalls == 2

\* An object of the caller: func tells the histogram a TF1 owns from the
\* others
Obj(shape, name) ==
    shape @@ [id |-> 0, name |-> name, rxplot_draw_opt |-> "", func |-> FALSE]
StackA == Obj(Hist(<<1, 2>>, <<0, 0>>), "a")
StackB == Obj(Hist(<<3, 1>>, <<0, 0>>), "b")
StackC == Obj(Hist(<<2, 2>>, <<0, 0>>), "c")
GraphG == Obj(Graph(<<1, 4>>), "g")
FuncF == [Obj(Hist(<<1, 1>>, <<0, 0>>), "f") EXCEPT !.cls = "TF1"]
Marker == [Obj(Hist(<<>>, <<>>), "m") EXCEPT !.cls = "TMarker"]

LegendNone == [kind |-> "none", l |-> <<>>]
LegendAuto == [kind |-> "auto", l |-> <<>>]
LegendLabels(l) == [kind |-> "labels", l |-> l]
LegendEntries(l) == [kind |-> "entries", l |-> l]
NoOrder == [given |-> FALSE, l |-> <<>>]
Order(l) == [given |-> TRUE, l |-> l]

AddArg(objs, opts, pos, legend_pos, stack, reverse, legend, legend_order, legend_opts) ==
    [objs |-> objs, opts |-> opts, pos |-> pos, legend_pos |-> legend_pos,
     stack |-> stack, reverse_legend_for_stack |-> reverse, legend |-> legend,
     legend_order |-> legend_order, legend_opts |-> legend_opts]

\* Lists of labels with empty labels, legend_opts with empty options, and
\* legend_order
AddArgsLegend ==
    { AddArg(<<StackA, GraphG, StackB>>, Str(""), None, None, FALSE, TRUE,
             LegendLabels(labels), legend_order, legend_opts) :
        labels \in { <<"A", "", "C">>, <<"A", "B", "C">> },
        legend_order \in { NoOrder, Order(<<>>), Order(<<1, 0>>),
                           Order(<<2, 0, 1>>), Order(<<-1>>) },
        legend_opts \in { NotGiven, List(<<"L", "L", "">>),
                          List(<<"L", "", "P">>), Str("F") } }

\* Lists of 0 to 3 labels for 0 to 3 series
AddArgsLengths ==
    { AddArg(objs, Str("HIST"), None, None, FALSE, TRUE,
             LegendLabels(labels), NoOrder, NotGiven) :
        objs \in { <<>>, <<StackA>>, <<StackA, GraphG>>, <<StackA, GraphG, StackB>> },
        labels \in { <<>>, <<"A">>, <<"A", "B">>, <<"A", "B", "C">> } }

\* Stacks of two and three histograms
AddArgsStack ==
    { AddArg(objs, Str("HIST"), None, None, TRUE, reverse, legend, legend_order,
             NotGiven) :
        objs \in { <<StackA, StackB, StackC>>, <<StackA, StackB>> },
        reverse \in BOOLEAN,
        legend \in { LegendAuto, LegendLabels(<<"A", "B", "C">>) },
        legend_order \in { NoOrder, Order(<<0, 1>>) } }

\* Series placed in the draw order and in the legend
AddArgsPos ==
    { AddArg(objs, opts, pos, legend_pos, FALSE, TRUE, legend, NoOrder, NotGiven) :
        objs \in { <<GraphG>>, <<StackA, GraphG>> },
        opts \in { Str(""), List(<<"P", "E">>) },
        pos \in { None, <<0>>, <<1>>, <<-1>>, <<7>> },
        legend_pos \in { None, <<0>> },
        legend \in { LegendAuto } }
    \cup
    { AddArg(<<GraphG>>, Str("P2+"), None, None, FALSE, TRUE, legend, NoOrder, NotGiven) :
        legend \in { LegendNone, LegendEntries(<< <<Q(1, 20), Q(1, 20), 0, "D", "L">> >>) } }

\* Functions among the series
AddArgsFunc ==
    { AddArg(objs, opts, pos, None, FALSE, TRUE, LegendAuto, NoOrder, NotGiven) :
        objs \in { <<FuncF>>, <<GraphG, FuncF>> },
        opts \in { Str(""), Str("HIST") },
        pos \in { None, <<0>> } }

AddArgs ==
    AddArgsLegend \cup AddArgsLengths \cup AddArgsStack \cup AddArgsPos \cup AddArgsFunc

PrimArgs ==
    { [objs |-> objs, opts |-> opts, pos |-> pos] :
        objs \in { <<Marker>>, <<Marker, Marker>> },
        opts \in { Str(""), List(<<"P", OptNone>>) },
        pos \in { None, <<0>>, <<-1>>, <<7>> } }

\* The objects of a call: new ones, from next_id on
WithIds(objs, next_id) ==
    [i \in 1 .. Len(objs) |-> [objs[i] EXCEPT !.id = next_id + i - 1]]

\* The option the caller supplies for each primitive, kept on the object
\* (for add, add keeps it there itself)
WithOpts(objs, opts) ==
    [i \in 1 .. Len(objs) |-> [objs[i] EXCEPT !.rxplot_draw_opt = Arg(opts, i - 1)]]

\* The plotter that takes the call, with ncalls, the number of calls so far
Called(p, n) == [p EXCEPT !.ncalls = @ + 1, !.next_id = @ + n]

\* p.add(objs, ...) with the arguments a
DoAddSeries(Pool) ==
    /\ plotter.ncalls < MaxCalls
    /\ \E a \in Pool :
         /\ plotter' = AddSeries(Called(plotter, Len(a.objs)),
                                 [a EXCEPT !.objs = WithIds(@, plotter.next_id)])
         /\ call' = [op |-> "add", before |-> plotter,
                     args |-> [a EXCEPT !.objs = WithIds(@, plotter.next_id)],
                     inputs |-> InputsAfter(Called(plotter, Len(a.objs)),
                                            [a EXCEPT !.objs = WithIds(@, plotter.next_id)])]
    /\ UNCHANGED <<occVars, mmVars>>

\* p.add_primitives(objs, opts, pos) with the arguments a
DoAddPrims(Pool) ==
    /\ plotter.ncalls < MaxCalls
    /\ \E a \in Pool :
         /\ plotter' = AddPrimitives(Called(plotter, Len(a.objs)),
                                     [a EXCEPT !.objs = WithOpts(WithIds(@, plotter.next_id),
                                                                 a.opts)])
         /\ call' = [op |-> "add_primitives", before |-> plotter,
                     args |-> [a EXCEPT !.objs = WithOpts(WithIds(@, plotter.next_id),
                                                          a.opts)],
                     inputs |-> <<>>]
    /\ UNCHANGED <<occVars, mmVars>>

AddInit ==
    /\ plotter = NewDrawPlotter(TextKw(None, "auto", 1, FALSE), TRUE) @@ [ncalls |-> 0]
    /\ call = [op |-> "new", before |-> None, args |-> None, inputs |-> <<>>]
    /\ ranges = <<>> /\ added = <<>> /\ mmIn = None /\ mmOut = None

AddCall == DoAddSeries(AddArgs)

DoAddPrimitives == DoAddPrims(PrimArgs)

AddNext == AddCall \/ DoAddPrimitives

SpecAdd == AddInit /\ [][AddNext]_vars

-----------------------------------------------------------------------------
(* Claims about add and add_primitives (SpecAdd).                          *)

\* The legend entries and the drawn objects the last call added at the end
NewLegendItems ==
    SubSeq(plotter.legend_items, Len(call.before.legend_items) + 1,
           Len(plotter.legend_items))
NewDrawObjs ==
    SubSeq(plotter.draw_objs, Len(call.before.draw_objs) + 1, Len(plotter.draw_objs))

\* The legend option of label i (1-based) of the call a: from legend_opts,
\* or the default of the draw option
LegendOptOf(a, i) ==
    IF a.legend_opts.kind = "none" THEN DefaultLegendOpt(Arg(a.opts, i - 1))
    ELSE Arg(a.legend_opts, i - 1)

\* Label i of the call a has a non-empty label and a non-empty option
NonEmpty(a, i) == a.legend.l[i] # "" /\ LegendOptOf(a, i) # ""

\* x is the entry of label i of the call a
IsEntry(x, a, i) ==
    x[3] = a.objs[i].id /\ x[4] = a.legend.l[i] /\ x[5] = LegendOptOf(a, i)

\* The entries items are those of the labels idx, in that order
AreEntries(items, a, idx) ==
    /\ Len(items) = Len(idx)
    /\ \A k \in 1 .. Len(idx) : IsEntry(items[k], a, idx[k])

\* An add() that returned, not a stack, with one string label per series,
\* its entries appended to the legend
LabelListCall ==
    /\ call.op = "add" /\ plotter.raised = None
    /\ call.args.legend.kind = "labels" /\ ~call.args.stack
    /\ Len(call.args.objs) > 0
    /\ Len(call.args.legend.l) = Len(call.args.objs)
    /\ call.args.legend_pos = None

\* C12: for a list of string labels (and no legend_order) the legend entries
\* are exactly those whose label and whose legend option are both non-empty,
\* in their original relative order.
C12_LegendFilter ==
    (LabelListCall /\ Len(call.args.legend_order.l) = 0 /\ ~call.args.legend_order.given) =>
        AreEntries(NewLegendItems, call.args,
                   SelectSeq([i \in 1 .. Len(call.args.objs) |-> i],
                             LAMBDA i : NonEmpty(call.args, i)))

\* C12 witness: labels ["A", "", "C"] with legend_opts ["L", "L", ""] leave
\* the entry "A" alone
C12_Witness ==
    /\ LabelListCall /\ ~call.args.legend_order.given
    /\ call.args.legend.l = <<"A", "", "C">>
    /\ call.args.legend_opts = List(<<"L", "L", "">>)
    /\ Len(NewLegendItems) = 1
    /\ NewLegendItems[1][4] = "A" /\ NewLegendItems[1][5] = "L"

\* C13: for a list of string labels and any legend_order of valid indexes,
\* the empty list included, the legend entries are those at the listed
\* indexes, in the listed order; unlisted entries (and entries with an
\* empty label or option) are omitted.
C13_LegendOrder ==
    (/\ LabelListCall /\ call.args.legend_order.given
     /\ \A k \in 1 .. Len(call.args.legend_order.l) :
           PyIndex(Len(call.args.objs), call.args.legend_order.l[k])
               \in 1 .. Len(call.args.objs)) =>
        AreEntries(NewLegendItems, call.args,
                   SelectSeq([k \in 1 .. Len(call.args.legend_order.l) |->
                                 PyIndex(Len(call.args.objs), call.args.legend_order.l[k])],
                             LAMBDA i : NonEmpty(call.args, i)))

\* An add() given a list of string labels whose length is not the number of
\* its series
Mismatched ==
    /\ call.op = "add"
    /\ call.args.legend.kind = "labels"
    /\ Len(call.args.legend.l) # Len(call.args.objs)

\* C14: add raises whenever it is given a list of string labels whose
\* length differs from the number of series of the call.
C14_MismatchRaises == Mismatched => plotter.raised # None

\* C14 for calls with at least one series: add raises (RuntimeError, or
\* IndexError for an empty list of labels) whenever the list of string
\* labels and the non-empty list of series differ in length, and leaves the
\* plotter's lists as they were.
C14_MismatchRaisesWithSeries ==
    (Mismatched /\ Len(call.args.objs) > 0) =>
        /\ plotter.raised = IF Len(call.args.legend.l) = 0 THEN IndexError
                            ELSE RuntimeError
        /\ plotter.objs = call.before.objs
        /\ plotter.draw_objs = call.before.draw_objs
        /\ plotter.legend_items = call.before.legend_items

\* C14 witness: two labels for three series raise RuntimeError
C14_Witness ==
    /\ Mismatched
    /\ Len(call.args.objs) = 3 /\ Len(call.args.legend.l) = 2
    /\ plotter.raised = RuntimeError

\* The bin contents of a histogram
Values(obj) == [i \in 1 .. Len(obj.pts) |-> obj.pts[i].y]

\* The sum of the first k histograms of objs, bin by bin
RECURSIVE PrefixSum(_, _)
PrefixSum(objs, k) ==
    IF k = 1 THEN Values(objs[1])
    ELSE [i \in 1 .. Len(objs[k].pts) |->
             RAdd(PrefixSum(objs, k - 1)[i], objs[k].pts[i].y)]

\* An add(objs, stack=True) that returned
StackCall ==
    /\ call.op = "add" /\ plotter.raised = None
    /\ call.args.stack /\ Len(call.args.objs) > 0

\* Entry k of the legend entries the call appended is the one of input
\* i: its label, on the stack histogram that sums the first i inputs
StackEntry(k, i) ==
    /\ NewLegendItems[k][4] = IF call.args.legend.kind = "auto"
                                THEN call.args.objs[i].name
                                ELSE call.args.legend.l[i]
    /\ \E j \in 1 .. Len(NewDrawObjs) :
          /\ NewDrawObjs[j].id = NewLegendItems[k][3]
          /\ Values(NewDrawObjs[j]) = PrefixSum(call.args.objs, i)

\* C16: add(objs, stack=True) draws one histogram per input, the k-th
\* cumulative sum being the sum of the first k inputs, leaves the inputs
\* unmodified, and by default (reverse_legend_for_stack, no legend_order)
\* appends the legend entries in reverse order: last input first.
C16_Stack ==
    StackCall =>
        /\ call.inputs = call.args.objs
        /\ Len(NewDrawObjs) = Len(call.args.objs)
        /\ \A k \in 1 .. Len(call.args.objs) :
              \E j \in 1 .. Len(NewDrawObjs) :
                  /\ Values(NewDrawObjs[j]) = PrefixSum(call.args.objs, k)
                  /\ NewDrawObjs[j].id \notin { call.args.objs[i].id :
                                                  i \in 1 .. Len(call.args.objs) }
        /\ (call.args.reverse_legend_for_stack /\ ~call.args.legend_order.given) =>
              /\ Len(NewLegendItems) = Len(call.args.objs)
              /\ \A k \in 1 .. Len(call.args.objs) :
                    StackEntry(k, Len(call.args.objs) + 1 - k)

\* C16 witness: a stack of three histograms with the default legend, whose
\* entries are c, b, a
C16_Witness ==
    /\ StackCall
    /\ Len(call.args.objs) = 3
    /\ call.args.legend.kind = "auto"
    /\ call.args.reverse_legend_for_stack /\ ~call.args.legend_order.given
    /\ [k \in 1 .. 3 |-> NewLegendItems[k][4]] = <<"c", "b", "a">>
    /\ Values(NewDrawObjs[1]) = <<I(6), I(5)>>

\* draw_objs and draw_opts have the same length, and every object of objs
\* is in draw_objs
DrawListsAgree ==
    /\ Len(plotter.draw_objs) = Len(plotter.draw_opts)
    /\ \A i \in 1 .. Len(plotter.objs) :
          \E j \in 1 .. Len(plotter.draw_objs) :
              plotter.draw_objs[j].id = plotter.objs[i].id

\* C18: after any add and add_primitives calls with any pos, draw_objs and
\* draw_opts have the same length, draw_opts[i] is the option supplied for
\* draw_objs[i], and every object of objs is in draw_objs.
C18_DrawListsParallel ==
    /\ DrawListsAgree
    /\ \A i \in 1 .. Len(plotter.draw_objs) :
          i <= Len(plotter.draw_opts)
            /\ plotter.draw_opts[i] = plotter.draw_objs[i].rxplot_draw_opt

\* C18 but for the functions: after any add and add_primitives calls with
\* any pos, draw_objs and draw_opts have the same length, every object of
\* objs is in draw_objs, and draw_opts[i] is the option supplied for
\* draw_objs[i], "C" standing for the empty option where draw_objs[i] is the
\* histogram of a TF1.
C18_DrawListsParallelButFuncs ==
    /\ DrawListsAgree
    /\ \A i \in 1 .. Len(plotter.draw_objs) :
          i <= Len(plotter.draw_opts)
            /\ plotter.draw_opts[i] =
                  IF plotter.draw_objs[i].func /\ plotter.draw_objs[i].rxplot_draw_opt = ""
                    THEN "C" ELSE plotter.draw_objs[i].rxplot_draw_opt

\* C18 witness: a second call, add with pos = 0, put a graph and the
\* histogram of a function, drawn with "C", in front of the objects of the
\* first call
C18_Witness ==
    /\ call.op = "add" /\ plotter.raised = None
    /\ call.args.pos = <<0>> /\ call.args.opts = Str("")
    /\ Len(call.args.objs) = 2
    /\ Len(call.before.draw_objs) > 0
    /\ plotter.draw_objs[1].id = call.args.objs[1].id
    /\ plotter.draw_objs[2].func
    /\ plotter.draw_opts[2] = "C"
    /\ plotter.draw_opts[3] = call.before.draw_opts[1]

-----------------------------------------------------------------------------
(* Drawing.  canvas is the list of the Draw calls the pad received, each   *)
(* [kind, id, opt]: kind is "frame", "obj", "title", "legend", "redraw"    *)
(* (pad.RedrawAxis()), "line" or "marker"; id is the object drawn (for a   *)
(* title or a legend, its index in self.titles or self.legends).  cache    *)
(* holds what the draw_* methods keep alive, each [cls, items] with the    *)
(* <<x, y>> points of the primitive.                                       *)

AttributeError == <<[exc |-> "AttributeError"]>>

\* Plotter._auto_z_range on 1-D objects: no TH2 gives a value to min_val or
\* max_val
AutoZRange(objs, z_range) ==
    IF z_range = None THEN None
    ELSE IF z_range[1] # None /\ z_range[2] # None THEN z_range
    ELSE << IF z_range[1] # None THEN z_range[1] ELSE None,
            IF z_range[2] # None THEN z_range[2] ELSE None >>

\* Plotter.compile() with "self.z_range = self._auto_z_range(**self.args)"
CompileDraw(p, need_fix) ==
    [Compile(p, need_fix) EXCEPT !.z_range = AutoZRange(p.objs, p.args.z_range)]

\* "opt = 'SAME ' + opt", and 'SAME' for the empty option
SameOpt(opt) ==
    CASE opt = "" -> "SAME"
      [] opt = "HIST" -> "SAME HIST"
      [] opt = "P" -> "SAME P"
      [] opt = "E" -> "SAME E"
      [] opt = "C" -> "SAME C"
      [] opt = "PE" -> "SAME PE"
      [] opt = "P2+" -> "SAME P2+"

DrawCall(kind, id, opt) == [kind |-> kind, id |-> id, opt |-> opt]

\* One turn of the loop of _draw_objs: nothing for the option None, the
\* object with its option, and a TGraph with "2+" once more without it
DrawObj(obj, opt) ==
    IF opt = OptNone THEN <<>>
    ELSE <<DrawCall("obj", obj.id, SameOpt(opt))>>
           \o (IF obj.cls = "TGraph" /\ opt = "P2+"
                 THEN <<DrawCall("obj", obj.id, "SAME P")>> ELSE <<>>)

\* The number of pairs of zip(a, b)
ZipLen(a, b) == IF Len(a) < Len(b) THEN Len(a) ELSE Len(b)

\* Plotter._draw_objs over the first n pairs of zip(draw_objs, draw_opts)
RECURSIVE DrawObjs(_, _, _)
DrawObjs(draw_objs, draw_opts, n) ==
    IF n = 0 THEN <<>>
    ELSE DrawObjs(draw_objs, draw_opts, n - 1) \o DrawObj(draw_objs[n], draw_opts[n])

\* The frame is objs[0] and a TGraph
GraphFrame(p) == ~p.frame.own /\ p.objs[1].cls = "TGraph"

DrawFrame(p) ==
    IF p.draw_frame
      THEN <<DrawCall("frame", 0, IF GraphFrame(p) THEN "A" ELSE "AXIS")>>
      ELSE <<>>
DrawTitles(p) == [i \in 1 .. Len(p.t.titles) |-> DrawCall("title", i, "")]
DrawLegends(p) == [i \in 1 .. Len(p.lg.legends) |-> DrawCall("legend", i, "")]

\* The titles drawn before the objects (a faulty variant)
DrawAllTitlesFirst(p) ==
    DrawFrame(p) \o DrawTitles(p)
      \o DrawObjs(p.draw_objs, p.draw_opts, ZipLen(p.draw_objs, p.draw_opts))
      \o DrawLegends(p)

\* Plotter._draw_all: the frame, the objects, the titles, the legends
DrawAll(p) ==
    DrawFrame(p)
      \o DrawObjs(p.draw_objs, p.draw_opts, ZipLen(p.draw_objs, p.draw_opts))
      \o DrawTitles(p) \o DrawLegends(p)

\* obj.Draw(...): the primitives go to the current pad, which is this
\* plotter's pad (gpad = "own") or another one
Emit(p, calls) ==
    IF p.gpad = "own" THEN [p EXCEPT !.canvas = @ \o calls]
    ELSE [p EXCEPT !.elsewhere = @ \o calls]

\* A method that never selects the pad (a faulty variant)
NoCd(p) == p

\* self.pad.cd()
Cd(p) == [p EXCEPT !.gpad = "own"]

\* draw() after "if not self.compiled: self.compile(**kwargs)"; RedrawAxis
\* is a method of the pad itself
DrawCompiled(q) ==
    IF q.raised # None THEN q
    ELSE [Emit(q, DrawAll(q)) EXCEPT !.canvas = Append(@, DrawCall("redraw", 0, ""))]

\* draw() compiling whatever self.compiled says (a faulty variant)
DrawAlways(p, need_fix) == DrawCompiled(CompileDraw(Cd(p), need_fix))

\* Plotter.draw()
Draw(p, need_fix) ==
    DrawCompiled(IF p.compiled THEN [Cd(p) EXCEPT !.raised = None]
                 ELSE CompileDraw(Cd(p), need_fix))

\* "m.Draw(); self.cache.append(m)" and its like
Keep(p, cls, items) ==
    Emit([p EXCEPT !.raised = None,
                   !.cache = Append(@, [cls |-> cls, items |-> items])],
         [i \in 1 .. (IF cls = "list" THEN Len(items) ELSE 1) |->
             DrawCall(IF cls = "TLine" THEN "line" ELSE "marker", 0, "")])

\* Plotter.draw_marker(x, y, axes_units): Plotter has no method axes_to_pad
draw_marker(p, x, y, axes_units) ==
    IF axes_units THEN [Cd(p) EXCEPT !.raised = AttributeError]
    ELSE Keep(Cd(p), "TMarker", << <<x, y>> >>)

\* Plotter.draw_hline(y) once compile() has set x_range and y_range
draw_hline(p, y) ==
    IF y = None THEN [p EXCEPT !.raised = None]
    ELSE IF p.y_range # None /\ (RLt(y, p.y_range[1]) \/ RGt(y, p.y_range[2]))
      THEN [p EXCEPT !.raised = None]
    ELSE Keep(Cd(p), "TLine", << <<p.x_range[1], y>>, <<p.x_range[2], y>> >>)

\* frame.GetMinimum() / GetMaximum(): a TGraph answers -1111 until it is
\* given one
GetMinimum(p) ==
    IF p.frame.minimum = None /\ GraphFrame(p) THEN I(-1111)
    ELSE FrameMinimum(p.frame, p.objs)
GetMaximum(p) ==
    IF p.frame.maximum = None /\ GraphFrame(p) THEN I(-1111)
    ELSE FrameMaximum(p.frame, p.objs)

\* Plotter.draw_vline(x) once compile() has set y_range and the frame
draw_vline(p, x) ==
    IF x = None THEN [p EXCEPT !.raised = None]
    ELSE Keep(Cd(p), "TLine",
              << <<x, IF p.y_range # None THEN p.y_range[1] ELSE GetMinimum(p)>>,
                 <<x, IF p.y_range # None THEN p.y_range[2] ELSE GetMaximum(p)>> >>)

\* The marker _outliers draws for the point pt of a TH1 or a TGraph, if any
Outlier(pt, x_min, x_max, y_min, y_max) ==
    IF RLt(RDiv(RAdd(pt.x_low, pt.x_high), I(2)), x_min)
         \/ RGt(RDiv(RAdd(pt.x_low, pt.x_high), I(2)), x_max) THEN <<>>
    ELSE IF pt.y = RZero /\ pt.e = RZero THEN <<>>
    ELSE IF RGt(pt.y, y_max)
      THEN << <<RDiv(RAdd(pt.x_low, pt.x_high), I(2)),
                RSub(y_max, RDiv(RSub(y_max, y_min), I(50)))>> >>
    ELSE IF RLt(pt.y, y_min)
      THEN << <<RDiv(RAdd(pt.x_low, pt.x_high), I(2)),
                RAdd(y_min, RDiv(RSub(y_max, y_min), I(50)))>> >>
    ELSE <<>>

\* _outliers(frame, hists): the markers, object after object
Outliers(objs, x_min, x_max, y_min, y_max) ==
    Flatten([k \in 1 .. Len(objs) |->
               Flatten([i \in 1 .. Len(objs[k].pts) |->
                          Outlier(objs[k].pts[i], x_min, x_max, y_min, y_max)])])

\* Plotter.draw_outliers() once compile() has made the frame, on a frame
\* with a minimum and a maximum
draw_outliers(p) ==
    Keep(Cd(p), "list", Outliers(p.objs, p.frame.x_min, p.frame.x_max,
                             p.frame.minimum, p.frame.maximum))

-----------------------------------------------------------------------------
(* Plotters that are added to, compiled and drawn in any order.            *)

MaxDraws == 2

DrawKw(title, y_range, z_range) ==
    [Kw(title, <<>>, "auto", Q(1, 20),
        Args(<<None, None>>, y_range, None, None, None, 1, FALSE))
       EXCEPT !.args = @ @@ [z_range |-> z_range]]

DrawKws ==
    { DrawKw(None, auto, None), DrawKw(DefaultTitle, auto, <<None, I(5)>>),
      DrawKw(None, None, <<I(0), I(5)>>) }

DrawAddArgs ==
    { AddArg(<<StackA>>, Str("HIST"), None, None, FALSE, TRUE,
             LegendLabels(<<"A">>), NoOrder, NotGiven),
      AddArg(<<GraphG>>, Str("P2+"), <<0>>, None, FALSE, TRUE,
             LegendNone, NoOrder, NotGiven),
      AddArg(<<StackB, StackC>>, Str("HIST"), None, None, TRUE, TRUE,
             LegendAuto, NoOrder, NotGiven) }

DrawPrimArgs ==
    { [objs |-> <<Marker>>, opts |-> Str("P"), pos |-> None],
      [objs |-> <<Marker>>, opts |-> List(<<OptNone>>), pos |-> <<0>>] }

\* The plotter that takes a call of compile or of a draw method
Drawing(p) == [p EXCEPT !.ndraws = @ + 1]

DrawInit ==
    /\ \E kw \in DrawKws, draw_frame \in BOOLEAN :
         plotter = NewDrawPlotter(kw, draw_frame) @@ [ncalls |-> 0, ndraws |-> 0]
    /\ call = [op |-> "new", before |-> None, args |-> None, inputs |-> <<>>]
    /\ ranges = <<>> /\ added = <<>> /\ mmIn = None /\ mmOut = None

\* A call of compile or of a draw method, that leaves the plotter q
DrawStep(op, args, q) ==
    /\ plotter' = q
    /\ call' = [op |-> op, before |-> plotter, args |-> args, inputs |-> <<>>]
    /\ UNCHANGED <<occVars, mmVars>>

DrawAdd == DoAddSeries(DrawAddArgs)

DrawAddPrimitives == DoAddPrims(DrawPrimArgs)

\* p.compile(), with something added (objs[0] is read for the frame)
DrawCompile ==
    /\ plotter.ndraws < MaxDraws /\ Len(plotter.objs) > 0
    /\ \E need_fix \in ProbeAnswers(plotter.args) :
         DrawStep("compile", None, CompileDraw(Drawing(plotter), need_fix))

\* p.draw(), compiled or with something added
DoDraw ==
    /\ plotter.ndraws < MaxDraws /\ Len(plotter.objs) > 0
    /\ \E need_fix \in ProbeAnswers(plotter.args) :
         DrawStep("draw", None, Draw(Drawing(plotter), need_fix))

\* p.draw_marker(1, 1, axes_units)
DoDrawMarker ==
    /\ plotter.ndraws < MaxDraws
    /\ \E axes_units \in BOOLEAN :
         DrawStep("draw_marker", <<axes_units>>,
                  draw_marker(Drawing(plotter), I(1), I(1), axes_units))

\* p.draw_hline(y) after compile()
DoDrawHLine ==
    /\ plotter.ndraws < MaxDraws /\ plotter.compiled
    /\ \E y \in { None, I(1), I(100) } :
         DrawStep("draw_hline", y, draw_hline(Drawing(plotter), y))

\* p.draw_vline(1) after compile()
DoDrawVLine ==
    /\ plotter.ndraws < MaxDraws /\ plotter.compiled
    /\ DrawStep("draw_vline", I(1), draw_vline(Drawing(plotter), I(1)))

\* p.draw_outliers() after compile(), on a frame with the y range set
DoDrawOutliers ==
    /\ plotter.ndraws < MaxDraws /\ plotter.compiled
    /\ plotter.frame.minimum # None
    /\ DrawStep("draw_outliers", None, draw_outliers(Drawing(plotter)))

DrawNext ==
    \/ DrawAdd
    \/ DrawAddPrimitives
    \/ DrawCompile
    \/ DoDraw
    \/ DoDrawMarker
    \/ DoDrawHLine
    \/ DoDrawVLine
    \/ DoDrawOutliers

SpecDraw == DrawInit /\ [][DrawNext]_vars

-----------------------------------------------------------------------------
(* Claims about drawing (SpecDraw).                                        *)

\* The Draw calls of the last call
Drawn == SubSeq(plotter.canvas, Len(call.before.canvas) + 1, Len(plotter.canvas))

\* The state right after a draw() that returned
HasDrawn == call.op = "draw" /\ plotter.raised = None

\* The layers of a drawing, bottom up
Layer(kind) ==
    CASE kind = "frame" -> 0
      [] kind = "obj" -> 1
      [] kind = "title" -> 2
      [] kind = "legend" -> 3
      [] kind = "redraw" -> 4

\* The place in draw_objs of the object a Draw call draws
PlaceOf(c) == CHOOSE k \in 1 .. Len(plotter.draw_objs) : plotter.draw_objs[k].id = c.id

\* C17: every draw() emits its draw calls in the order frame, then
\* the entries of draw_objs in list order, then all title texts, then all
\* legend entries: no series before the frame, no text or legend before a
\* series.  (The frame is drawn unless _draw_frame says not to; an entry
\* whose option is None is not drawn.)
C17_DrawOrder ==
    HasDrawn =>
        /\ \A i, j \in 1 .. Len(Drawn) :
              i < j => /\ Layer(Drawn[i].kind) <= Layer(Drawn[j].kind)
                       /\ (Drawn[i].kind = "obj" /\ Drawn[j].kind = "obj")
                             => PlaceOf(Drawn[i]) <= PlaceOf(Drawn[j])
        /\ \A k \in 1 .. Len(plotter.draw_objs) :
              plotter.draw_opts[k] # OptNone
                <=> \E i \in 1 .. Len(Drawn) :
                      Drawn[i].kind = "obj" /\ Drawn[i].id = plotter.draw_objs[k].id
        /\ plotter.draw_frame <=> Drawn[1].kind = "frame"
        /\ Cardinality({ i \in 1 .. Len(Drawn) : Drawn[i].kind = "frame" })
              = IF plotter.draw_frame THEN 1 ELSE 0
        /\ Cardinality({ i \in 1 .. Len(Drawn) : Drawn[i].kind = "title" })
              = Len(plotter.t.titles)
        /\ Cardinality({ i \in 1 .. Len(Drawn) : Drawn[i].kind = "legend" })
              = Len(plotter.lg.legends)

\* C17 witness: a draw() of a graph added with pos = 0 in front of a
\* histogram, with a title and a legend entry
C17_Witness ==
    /\ HasDrawn /\ ~call.before.compiled
    /\ Len(Drawn) >= 7
    /\ Drawn[1] = DrawCall("frame", 0, "AXIS")
    /\ Drawn[2].opt = "SAME P2+" /\ Drawn[3].opt = "SAME P"
    /\ Drawn[4].opt = "SAME HIST"
    /\ Drawn[2].id = plotter.objs[2].id /\ Drawn[4].id = plotter.objs[1].id
    /\ Drawn[5].kind = "title"
    /\ Drawn[Len(Drawn) - 1].kind = "legend"

Ranges(p) == <<p.x_range, p.y_range, p.z_range>>

\* C19: once compile() has returned, no later draw(), draw_marker(),
\* draw_hline(), draw_vline(), draw_outliers(), add() or add_primitives()
\* changes x_range, y_range or z_range.
C19_RangesImmutable ==
    (/\ call.op \in { "draw", "draw_marker", "draw_hline", "draw_vline",
                      "draw_outliers", "add", "add_primitives" }
     /\ call.before.compiled) =>
        Ranges(plotter) = Ranges(call.before)

\* C19 witness: a draw() of a compiled plotter that was added to since: a
\* series lies above the compiled y range
C19_Witness ==
    /\ HasDrawn /\ call.before.compiled
    /\ plotter.y_range # None /\ plotter.z_range = <<None, I(5)>>
    /\ \E k \in 1 .. Len(plotter.objs) :
          \E i \in 1 .. Len(plotter.objs[k].pts) :
              RGt(plotter.objs[k].pts[i].y, plotter.y_range[2])

-----------------------------------------------------------------------------
(* The coordinate conversions (plot.py 1934-1980).  User coordinates are   *)
(* the data's, axes coordinates run from 0 to 1 along the axes, pad        *)
(* coordinates from 0 to 1 across the pad.                                 *)

TypeError == <<[exc |-> "TypeError"]>>

\* a / b of two numpy floats: no exception, but inf and nan
FQuot(a, b) ==
    IF a = NaN \/ b = NaN THEN NaN
    ELSE IF IsFinite(a) /\ IsFinite(b)
      THEN IF b # RZero THEN RDiv(a, b)
           ELSE IF a = RZero THEN NaN
           ELSE IF RGt(a, RZero) THEN PosInf ELSE NegInf
    ELSE IF IsFinite(a) THEN RZero
    ELSE IF ~IsFinite(b) THEN NaN
    ELSE IF RLt(b, RZero) THEN FNeg(a) ELSE a

\* user_to_axes_y when pad.GetLogy(): fmin, fmax are frame.GetMinimum() and
\* frame.GetMaximum()
user_to_axes_y_log(fmin, fmax, y) ==
    IF RLe(y, RZero) THEN RZero
    ELSE FQuot(FAdd(Log10(y), FNeg(Log10(fmin))),
               FAdd(Log10(fmax), FNeg(Log10(fmin))))

axes_to_pad_x(pad, x) ==
    RAdd(RMul(x, RSub(RSub(ROne, pad.left_margin), pad.right_margin)),
         pad.left_margin)
axes_to_pad_y(pad, y) ==
    RAdd(RMul(y, RSub(RSub(ROne, pad.top_margin), pad.bottom_margin)),
         pad.bottom_margin)

\* user_to_pad_x and user_to_pad_y call user_to_axes_x(frame, x) and
\* user_to_axes_y(frame, y), one argument short
user_to_pad_x(pad, frame, x) == TypeError
user_to_pad_y(pad, frame, y) == TypeError

\* 10 ** e: a rational for a whole e
RECURSIVE PowerOfTen(_)
PowerOfTen(e) ==
    IF ~IsFinite(e) THEN Power10(e)
    ELSE IF e[2] # 1 THEN <<e[1], e[2], 10>>
    ELSE IF e[1] = 0 THEN ROne
    ELSE IF e[1] > 0 THEN RMul(I(10), PowerOfTen(I(e[1] - 1)))
    ELSE RDiv(PowerOfTen(I(e[1] + 1)), I(10))

\* The inverses of user_to_axes_x and user_to_axes_y, which plot.py does not
\* have: the algebraic inverses the specification speaks of
axis_to_data_x(frame, a) ==
    IF a = ZeroDivisionError THEN a
    ELSE RAdd(RMul(a, RSub(frame.x_max, frame.x_min)), frame.x_min)
axis_to_data_y(logy, fmin, fmax, a) ==
    IF a = ZeroDivisionError THEN a
    ELSE IF logy
      THEN PowerOfTen(FAdd(FMul(a, FAdd(Log10(fmax), FNeg(Log10(fmin)))), Log10(fmin)))
    ELSE RAdd(RMul(a, RSub(fmax, fmin)), fmin)

-----------------------------------------------------------------------------
(* Conversions on any pad and frame: plotter is here the pad and the       *)
(* frame, call the last conversion: its argument, its result and the       *)
(* result converted back.                                                  *)

CoordFrames ==
    { [NoFrame EXCEPT !.x_min = r[1], !.x_max = r[2], !.minimum = r[1], !.maximum = r[2]] :
        r \in { <<I(1), I(100)>>, <<I(10), I(1000)>>, <<Q(1, 10), I(10)>>,
                <<I(0), I(100)>>, <<I(-10), I(100)>>, <<I(10), I(10)>> } }

CoordPads ==
    { [left_margin |-> m[1], right_margin |-> m[2],
       bottom_margin |-> m[3], top_margin |-> m[4]] :
        m \in { <<Q(1, 10), Q(1, 10), Q(1, 10), Q(1, 10)>>,
                <<Q(3, 20), Q(1, 20), Q(1, 8), Q(2, 25)>>,
                <<RZero, RZero, RZero, Q(1, 3)>> } }

CoordValues == { I(-3), RZero, Q(1, 10), ROne, I(10), I(1000) }

AxesValues == { Q(-1, 4), RZero, Q(1, 3), ROne, Q(3, 2) }

CoordInit ==
    /\ \E frame \in CoordFrames, pad \in CoordPads, logy \in BOOLEAN :
         plotter = [frame |-> frame, pad |-> pad, logy |-> logy]
    /\ call = [op |-> "new", arg |-> None, out |-> None, back |-> None]
    /\ ranges = <<>> /\ added = <<>> /\ mmIn = None /\ mmOut = None

\* The conversion op of arg gave out, and the opposite conversion of out
\* gave back
Converted(op, arg, out, back) ==
    /\ call' = [op |-> op, arg |-> arg, out |-> out, back |-> back]
    /\ UNCHANGED <<plotter, occVars, mmVars>>

UserToAxesY(p, y) ==
    IF p.logy THEN user_to_axes_y_log(p.frame.minimum, p.frame.maximum, y)
    ELSE user_to_axes_y(p.frame.minimum, p.frame.maximum, y)

CoordUserToAxesX ==
    \E x \in CoordValues :
        Converted("user_to_axes_x", x, user_to_axes_x(plotter.frame, x),
                  axis_to_data_x(plotter.frame, user_to_axes_x(plotter.frame, x)))

CoordUserToAxesY ==
    \E y \in CoordValues :
        Converted("user_to_axes_y", y, UserToAxesY(plotter, y),
                  axis_to_data_y(plotter.logy, plotter.frame.minimum,
                                 plotter.frame.maximum, UserToAxesY(plotter, y)))

CoordAxesToPad ==
    \E a \in AxesValues :
        \/ Converted("axes_to_pad_x", a, axes_to_pad_x(plotter.pad, a),
                     pad_to_axes_x(plotter.pad, axes_to_pad_x(plotter.pad, a)))
        \/ Converted("axes_to_pad_y", a, axes_to_pad_y(plotter.pad, a),
                     pad_to_axes_y(plotter.pad, axes_to_pad_y(plotter.pad, a)))

CoordPadToAxes ==
    \E a \in AxesValues :
        \/ Converted("pad_to_axes_x", a, pad_to_axes_x(plotter.pad, a),
                     axes_to_pad_x(plotter.pad, pad_to_axes_x(plotter.pad, a)))
        \/ Converted("pad_to_axes_y", a, pad_to_axes_y(plotter.pad, a),
                     axes_to_pad_y(plotter.pad, pad_to_axes_y(plotter.pad, a)))

CoordUserToPad ==
    \E x \in CoordValues :
        \/ Converted("user_to_pad_x", x, user_to_pad_x(plotter.pad, plotter.frame, x), None)
        \/ Converted("user_to_pad_y", x, user_to_pad_y(plotter.pad, plotter.frame, x), None)

CoordNext ==
    \/ CoordUserToAxesX
    \/ CoordUserToAxesY
    \/ CoordAxesToPad
    \/ CoordPadToAxes
    \/ CoordUserToPad

SpecCoord == CoordInit /\ [][CoordNext]_vars

\* The axis range of the frame has a positive width
PositiveWidth == RLt(plotter.frame.minimum, plotter.frame.maximum)

\* C20: for any axis range of positive width and any pad margins, data ->
\* axes -> data and axes -> pad -> axes return the original value: on a
\* linear axis for every v, on a logarithmic axis for every positive v.
C20_RoundTrip ==
    /\ (call.op = "user_to_axes_x" /\ PositiveWidth) => call.back = call.arg
    /\ (/\ call.op = "user_to_axes_y" /\ PositiveWidth
        /\ plotter.logy => RGt(call.arg, RZero)) => call.back = call.arg
    /\ call.op \in { "axes_to_pad_x", "axes_to_pad_y" } => call.back = call.arg

\* The same on logarithmic axes whose range starts above 0 only
C20_RoundTripPositiveAxis ==
    /\ (call.op = "user_to_axes_x" /\ PositiveWidth) => call.back = call.arg
    /\ (/\ call.op = "user_to_axes_y" /\ PositiveWidth
        /\ plotter.logy => (RGt(call.arg, RZero) /\ RGt(plotter.frame.minimum, RZero)))
          => call.back = call.arg
    /\ call.op \in { "axes_to_pad_x", "axes_to_pad_y", "pad_to_axes_x", "pad_to_axes_y" }
          => call.back = call.arg

-----------------------------------------------------------------------------
(* More claims about the Occlusion list (SpecOcc).                         *)

\* The entries of ranges are sorted by x_min
SortedByXMin ==
    \A i \in 1 .. Len(ranges) - 1 : RLe(ranges[i].x_min, ranges[i + 1].x_min)

\* Each entry ends where the next begins, or before
NonOverlapping ==
    \A i \in 1 .. Len(ranges) - 1 : RLe(ranges[i].x_max, ranges[i + 1].x_min)

\* No two entries are identical
NoTwoIdentical ==
    \A i, j \in 1 .. Len(ranges) : i # j => ranges[i] # ranges[j]

\* C21: after any Occlusion.add calls with x_min <= x_max, the entries of
\* ranges are sorted by x_min and pairwise non-overlapping in x: each
\* entry's x_max is at most the next entry's x_min, and no two entries are
\* identical.
C21_SortedDisjoint == SortedByXMin /\ NonOverlapping /\ NoTwoIdentical

\* The x values the coverage is looked at: the corners of the rectangles
\* and the points half-way between them
OccSamples == { Q(k, 2) : k \in 0 .. 6 }

\* Some entry of ranges contains x and the y-extent of the rectangle r
Covered(x, r) ==
    \E j \in 1 .. Len(ranges) :
        /\ RLe(ranges[j].x_min, x) /\ RLe(x, ranges[j].x_max)
        /\ RGe(ranges[j].y_max, r.y_max) /\ RLe(ranges[j].y_min, r.y_min)

\* C22: after any Occlusion.add calls the list represents the union of all
\* that was added: for every rectangle added and every x in its x-interval,
\* some entry of ranges contains x, reaches up to the rectangle's y_max at
\* least and down to its y_min at least.
C22_Coverage ==
    \A i \in 1 .. Len(added) :
        \A x \in OccSamples :
            (RLe(added[i].x_min, x) /\ RLe(x, added[i].x_max)) => Covered(x, added[i])

-----------------------------------------------------------------------------
(* The degenerate data range (SpecText).                                   *)

\* The state right after a compile() call whose range estimation found all
\* data values equal
DegenerateCompile ==
    /\ call.op = "compile"
    /\ plotter.data_y_min # None
    /\ plotter.data_y_min = plotter.data_y_max

\* C23: when all data values are equal (data_y_min = data_y_max), compile()
\* skips the text-placement optimisation: it does not raise a division by
\* zero, and text_pos and _y_pad_top keep their configured values.
C23_DegenerateSkipsPlacement ==
    DegenerateCompile =>
        /\ plotter.raised = None
        /\ plotter.text_pos = call.before.text_pos
        /\ plotter.y_pad_top = call.before.y_pad_top

-----------------------------------------------------------------------------
(* _fix_bad_yticks on its own: any range with y_min <= y_max, any choice   *)
(* of fixed sides, any ydivs and any answers of the tick probe.            *)

TickRanges == { <<I(0), I(10)>>, <<I(-2), I(3)>>, <<I(5), I(5)>> }
TickDivs == { None, I(2), I(505), I(506), I(510) }

\* What the probes of THLimitsFinder.Optimize would answer, a fourth probe
\* included
TickAnswers == [1 .. 4 -> BOOLEAN]

TicksInit ==
    /\ call = [op |-> "new"]
    /\ plotter = None
    /\ ranges = <<>> /\ added = <<>> /\ mmIn = None /\ mmOut = None

\* _fix_bad_yticks(y_min, y_max, bot_is_fixed, top_is_fixed, ydivs)
CallFixBadYticks ==
    /\ \E r \in TickRanges, bot_is_fixed \in BOOLEAN, top_is_fixed \in BOOLEAN,
          ydivs \in TickDivs, need_fix \in TickAnswers :
         call' = [op |-> "_fix_bad_yticks", y_min |-> r[1], y_max |-> r[2],
                  bot_is_fixed |-> bot_is_fixed, top_is_fixed |-> top_is_fixed,
                  ydivs |-> ydivs, need_fix |-> need_fix,
                  out |-> FixBadYticks(r[1], r[2], bot_is_fixed, top_is_fixed,
                                       ydivs, need_fix)]
    /\ UNCHANGED <<plotter, occVars, mmVars>>

TicksNext == CallFixBadYticks

SpecTicks == TicksInit /\ [][TicksNext]_vars

\* The number of probes, of three at most, answered "needs a fix" before the
\* first one that accepts the range
Rejections(need_fix) ==
    Cardinality({ i \in 1 .. 3 : \A j \in 1 .. i : need_fix[j] })

\* q to the power k
RECURSIVE RPow(_, _)
RPow(q, k) == IF k = 0 THEN ROne ELSE RMul(q, RPow(q, k - 1))

\* The factor by which one widening step stretches the range
StepFactor(bot_is_fixed, top_is_fixed) ==
    IF bot_is_fixed /\ top_is_fixed THEN ROne
    ELSE IF bot_is_fixed \/ top_is_fixed THEN Q(11, 10)
    ELSE Q(12, 10)

\* The call probes the ticks at all
Probes(c) ==
    /\ ~(c.bot_is_fixed /\ c.top_is_fixed)
    /\ c.ydivs # None /\ c.ydivs[1] % 100 <= 5

\* c is a call of _fix_bad_yticks that keeps what the claim says
TickFixBounded(c) ==
    /\ Len(c.out) = 2
    /\ RLe(c.out[1], c.y_min) /\ RGe(c.out[2], c.y_max)
    /\ c.bot_is_fixed => c.out[1] = c.y_min
    /\ c.top_is_fixed => c.out[2] = c.y_max
    /\ ~Probes(c) => c.out = <<c.y_min, c.y_max>>
    /\ Probes(c) =>
          RSub(c.out[2], c.out[1]) =
              RMul(RSub(c.y_max, c.y_min),
                   RPow(StepFactor(c.bot_is_fixed, c.top_is_fixed),
                        Rejections(c.need_fix)))

\* C24: for any answers of the tick probe, _fix_bad_yticks makes at most 3
\* widening steps and stops at the first probe that accepts; it returns a
\* range (never an error) that contains the input range, leaves a fixed
\* side unchanged, and returns the input unchanged when both sides are
\* fixed, ydivs is None or ydivs % 100 > 5.
C24_TickFixBounded == call.op = "_fix_bad_yticks" => TickFixBounded(call)

\* Every probe rejects, also a fourth one: the free top side of (0, 10) was
\* widened three times and no more
C24_Witness ==
    /\ call.op = "_fix_bad_yticks"
    /\ Probes(call) /\ call.bot_is_fixed
    /\ \A i \in 1 .. 4 : call.need_fix[i]
    /\ call.y_min = RZero /\ call.out = <<RZero, Q(1331, 100)>>

-----------------------------------------------------------------------------
(* Drawing while other code selects other pads: the calls of SpecDraw, and *)
(* between any two of them the current pad may become another pad.         *)

\* Code outside the plotter calls cd() on another pad
SelectOtherPad ==
    /\ plotter.gpad = "own"
    /\ plotter' = [plotter EXCEPT !.gpad = "other"]
    /\ UNCHANGED <<call, occVars, mmVars>>

PadNext == DrawNext \/ SelectOtherPad

SpecPad == DrawInit /\ [][PadNext]_vars

\* C25: draw, draw_marker, draw_hline, draw_vline and draw_outliers select
\* the plotter's own pad before their first primitive: whatever pad other
\* code selected between two calls, no primitive of the plotter is drawn
\* on another pad.
C25_OwnPad == plotter.elsewhere = <<>>

DrawOps == { "draw", "draw_marker", "draw_hline", "draw_vline", "draw_outliers" }

\* A drawing call made while another pad was selected has emitted primitives
C25_Witness ==
    /\ call.op \in DrawOps
    /\ call.before.gpad = "other"
    /\ Len(plotter.canvas) > Len(call.before.canvas)

-----------------------------------------------------------------------------
(* Plotters with one bound of y_range given and the other None, with and   *)
(* without a title, the clamps y_min and y_max and few tick divisions.     *)

HalfRanges == { <<None, I(30)>>, <<None, I(8)>>, <<I(1), None>>, <<I(-5), None>> }

HalfKws ==
    { RangeKw(title, <<None, None>>, y_range, c[1], c[2], ydivs) :
        title \in { None, DefaultTitle },
        y_range \in HalfRanges,
        c \in { <<None, None>>, <<I(2), I(10)>> },
        ydivs \in { None, I(2) } }

HalfInit ==
    /\ \E kw \in HalfKws : plotter = NewPlotter(kw, ROne)
    /\ call = [op |-> "new", before |-> None]
    /\ ranges = <<>> /\ added = <<>> /\ mmIn = None /\ mmOut = None

HalfAdd == DoAdd(RangeSeries, { <<None>> })

HalfNext == HalfAdd \/ DoCompile

SpecHalf == HalfInit /\ [][HalfNext]_vars

\* range keeps the bounds that given names
KeepsGiven(range, given) ==
    /\ range # None
    /\ given[1] # None => range[1] = given[1]
    /\ given[2] # None => range[2] = given[2]

\* C26: when exactly one bound of y_range is given and the other is None,
\* the compiled y_range keeps the given bound exactly: no padding, no move
\* by y_min / y_max and no widening by the tick correction on that side.
C26_GivenBoundKept == Compiled => KeepsGiven(plotter.y_range, plotter.args.y_range)

-----------------------------------------------------------------------------
(* A failed add (SpecAdd).                                                 *)

\* The four lists of the plotter p
Lists(p) == <<p.objs, p.draw_objs, p.draw_opts, p.legend_items>>

\* C27: when add() raises because of a mismatched number of legend labels,
\* objs, draw_objs, draw_opts and legend_items are exactly as they were
\* before the call.
C27_FailedAddAtomic ==
    (Mismatched /\ plotter.raised # None) => Lists(plotter) = Lists(call.before)

\* A mismatched add() has raised on a plotter that already held series,
\* draw options and legend entries
C27_Witness ==
    /\ Mismatched /\ plotter.raised = RuntimeError
    /\ Len(call.before.objs) > 0 /\ Len(call.before.draw_opts) > 0
    /\ Len(call.before.legend_items) > 0

-----------------------------------------------------------------------------
(* The cycle of a plotter: add, compile, reset_pad and draw in any order.  *)

\* reset_pad leaving self.compiled as it is (a faulty variant)
ResetPadCompiled(p) == [Cd(p) EXCEPT !.raised = None, !.placed = None]

\* Plotter.reset_pad(self.pad): the pad is selected by _set_pad_properties,
\* text sizes and titles are made again (the same, not yet placed)
reset_pad(p) ==
    [Cd(p) EXCEPT !.compiled = FALSE, !.raised = None, !.placed = None]

\* p.reset_pad(p.pad) on a compiled plotter
DoResetPad ==
    /\ plotter.compiled
    /\ DrawStep("reset_pad", None, reset_pad(plotter))

CycleNext == DrawAdd \/ DrawCompile \/ DoDraw \/ DoResetPad

SpecCycle == DrawInit /\ [][CycleNext]_vars

\* The last draw() has drawn a legend for every entry of legend_items
AllLegendsDrawn ==
    Cardinality({ k \in 1 .. Len(Drawn) : Drawn[k].kind = "legend" })
        = Len(plotter.legend_items)

\* Every point of every series of p lies in the ranges of p
SeriesCovered(p) ==
    \A k \in 1 .. Len(p.objs) : \A i \in 1 .. Len(p.objs[k].pts) :
        /\ p.x_range # None =>
              /\ RLe(p.x_range[1], p.objs[k].pts[i].x_low)
              /\ RLe(p.objs[k].pts[i].x_high, p.x_range[2])
        /\ p.y_range # None =>
              /\ RLe(p.y_range[1], p.objs[k].pts[i].y)
              /\ RLe(p.objs[k].pts[i].y, p.y_range[2])

\* C28: draw never uses a stale compile: whenever draw() emits primitives,
\* every entry of legend_items is drawn and every series in objs is covered
\* by the ranges, also when add() was called after compile().
C28_NoStaleCompile == HasDrawn => (AllLegendsDrawn /\ SeriesCovered(plotter))

\* C28 as the code has it: draw() compiles exactly when compiled is False
\* (never compiled, or reset_pad() since), and then every entry of
\* legend_items is drawn and every series is covered by the automatic
\* ranges; add() leaves compiled as it is, reset_pad() clears it, and a
\* draw() of a compiled plotter draws with the legend and the ranges of the
\* earlier compile().
C28_DrawCompilesWhenNotCompiled ==
    /\ (HasDrawn /\ ~call.before.compiled) =>
          (AllLegendsDrawn /\ SeriesCovered(plotter))
    /\ (HasDrawn /\ call.before.compiled) =>
          /\ Ranges(plotter) = Ranges(call.before)
          /\ plotter.lg = call.before.lg
    /\ call.op = "add" => plotter.compiled = call.before.compiled
    /\ call.op = "reset_pad" => ~plotter.compiled

\* A draw() after compile(), add() and reset_pad() has compiled again: the
\* series added since the first compile() are covered
C28_Witness ==
    /\ HasDrawn /\ ~call.before.compiled
    /\ call.before.frame.x_min # None
    /\ Len(plotter.objs) > 1 /\ Len(plotter.legend_items) > 0
    /\ AllLegendsDrawn /\ SeriesCovered(plotter)

-----------------------------------------------------------------------------
(* The compiled flag of a compile() that raised (SpecText).                *)

\* C29: compiled is true only after a completed compile(): if compile()
\* raises part-way, compiled is False afterwards, so that a later draw()
\* compiles again.
C29_CompiledOnlyWhenComplete ==
    (call.op = "compile" /\ plotter.raised # None) => ~plotter.compiled

-----------------------------------------------------------------------------
(* Plotters with tall text: legend labels of 0.5 and 0.71 of the pad's     *)
(* height, with or without a title, at the automatic or a fixed top        *)
(* placement.                                                              *)

TallLabel == <<Q(1, 10), Q(1, 2)>>
TallerLabel == <<Q(1, 10), Q(71, 100)>>

TallSeries == { Hist(<<1, 1, 10, 1>>, <<0, 0, 0, 0>>), Graph(<<2, 5, 8>>) }

TallLabelLists == { <<>>, <<WideLabel>>, <<TallLabel>>, <<TallerLabel>> }

TallInit ==
    /\ \E title \in { None, DefaultTitle }, text_pos \in { "auto", "topright" } :
         plotter = NewPlotter(TextKw(title, text_pos, 1, FALSE), ROne)
    /\ call = [op |-> "new", before |-> None]
    /\ ranges = <<>> /\ added = <<>> /\ mmIn = None /\ mmOut = None

TallAdd == DoAdd(TallSeries, TallLabelLists)

TallNext == TallAdd \/ DoCompile

SpecTall == TallInit /\ [][TallNext]_vars

\* The padding fractions _pad_y_range passes to _get_padded_range first
PadBot(p) == IF p.auto_y_bot THEN p.y_pad_bot ELSE RZero
PadTop(p) == IF p.auto_y_top THEN p.y_pad_top ELSE RZero

\* C30: in every compile(), _y_pad_top >= _y_min_pad_top and the padding
\* fractions passed to _get_padded_range have pad_bot + pad_top < 1: no
\* division by zero occurs and the padded range has min < max whenever
\* data_min < data_max, for any text height and any data.
C30_PaddingValid ==
    (call.op = "compile" /\ plotter.data_y_min # None
        /\ RLt(plotter.data_y_min, plotter.data_y_max)) =>
        /\ plotter.raised = None
        /\ RGe(plotter.y_pad_top, plotter.y_min_pad_top)
        /\ RLt(RAdd(PadBot(plotter), PadTop(plotter)), ROne)
        /\ RLt(plotter.y_range[1], plotter.y_range[2])


=============================================================================
